---- MODULE Spec2Model ----
(***************************************************************************)
(* Link resolution engine of animine.py: HexDecoder.decode, the provider   *)
(* registry, ProviderManager.get_all_links with its thread pool of         *)
(* fetch_provider_data workers, JSONDataManager.update_provider_stats on   *)
(* the shared provider_stats.json file, get_provider_rankings,             *)
(* extract_sharepoint_links, and the final sort by sort_key.               *)
(*                                                                         *)
(* Strings that the code inspects character by character (tokens, decoded  *)
(* paths) are sequences of one-character strings.                          *)
(***************************************************************************)
EXTENDS Integers, Sequences, FiniteSets, TLC

VARIABLES
    pc,           \* position of the thread running get_all_links
    metaReply,    \* whether the metadata endpoint answers the query of this call
    metaResult,   \* how the metadata query ended: "none", "ok", "empty", "error"
    source_urls,  \* data.episode.sourceUrls of the metadata response
    idx,          \* position of the submit loop in the provider registry
    futures,      \* provider keys submitted to the executor, in submission order
    wpc,          \* position of each fetch_provider_data worker
    wres,         \* the dict each worker returns (the future's result)
    wdata,        \* each worker's local `data` inside update_provider_stats
    wrt,          \* each worker's measured response_time
    statsFile,    \* content of provider_stats.json ("providers" object)
    tmpFile,      \* content of provider_stats.tmp, or NoFile
    all_links,    \* the accumulator of get_all_links
    collected,    \* futures already consumed by the as_completed loop
    gathered,     \* all_links as gathered, before the sort (kept for the record)
    ret,          \* outcome of get_all_links, or NoRet
    stats0,       \* provider_stats.json when the call started
    recorded,     \* update_provider_stats invocations of the call: <<name, success>>
    requested,    \* provider fetches issued in the call: <<key, url>>
    rin,          \* ranking: the list handed to sort
    rout,         \* ranking: the list after one sort
    rout2,        \* ranking: the list after sorting the sorted list again
    rpc,          \* ranking: "off", "in", "once", "twice"
    tok,          \* decoder: the token handed to decode
    decoded_chars,\* decoder: the characters decode assembled, before the rewrite
    dout,         \* decoder: the value decode returned
    dpc,          \* decoder: "off", "in", "out"
    tfile,        \* tracker: provider_stats.json ("providers" object) between calls
    torder,       \* tracker: the keys of the "providers" object in insertion order
    tprev,        \* tracker: the file before the latest update_provider_stats call
    tcall,        \* tracker: the arguments of the latest call, or NoCall
    tcount,       \* tracker: number of update_provider_stats calls made
    rankings,     \* tracker: the list get_provider_rankings returned
    tpc,          \* tracker: "off", "run", "ranked"
    ebody,        \* extractor: the response text handed to extract_sharepoint_links
    elinks,       \* extractor: the list it returned
    epc,          \* extractor: "off", "in", "out"
    mkey,         \* media extractors: the provider key of the response
    mtext,        \* media extractors: the response text
    mlinks,       \* media extractors: the triples extracted from it
    mpc,          \* media extractors: "off", "in", "out"
    hfile,        \* history: the "history" list of history.json
    hnow,         \* history: the latest reading of the clock
    hargs,        \* history: the arguments of the latest add_history call, or NoArgs
    hret,         \* history: what the latest add_history call returned
    hcount,       \* history: number of add_history calls made
    hpc,          \* history: "off", "run"
    procs,        \* player: the processes launched so far, "running" or "exited"
    current_process, \* player: MediaPlayer.current_process, an index of procs or None
    plast,        \* player: the latest call and what it returned
    ppc,          \* player: "off", "run"
    episodes,     \* session: the episodes list of the session
    current_episode, \* session: the episode the session is at
    svariant,     \* session: which of the two watching loops runs
    saction,      \* session: the latest action taken at the controls, or NoAction
    spos          \* session: "off", "top" of the loop, "controls", "ended"

resVars == <<pc, metaReply, metaResult, source_urls, idx, futures, wpc, wres, wdata, wrt,
             statsFile, tmpFile, all_links, collected, gathered, ret, stats0,
             recorded, requested>>
rankVars == <<rin, rout, rout2, rpc>>
decVars == <<tok, decoded_chars, dout, dpc>>
trkVars == <<tfile, torder, tprev, tcall, tcount, rankings, tpc>>
extVars == <<ebody, elinks, epc>>
medVars == <<mkey, mtext, mlinks, mpc>>
histVars == <<hfile, hnow, hargs, hret, hcount, hpc>>
plyVars == <<procs, current_process, plast, ppc>>
sessVars == <<episodes, current_episode, svariant, saction, spos>>
vars == <<resVars, rankVars, decVars, trkVars, extVars, medVars, histVars, plyVars, sessVars>>

(***************************************************************************)
(* Bounds of the model.                                                    *)
(***************************************************************************)
\* longest token, counted in pieces of TokenPieces, handed to decode
MaxPieces == 3
\* longest list handed to the ranking sort
MaxLinks == 3

(***************************************************************************)
(* Generic string helpers (Python str semantics on character sequences).   *)
(***************************************************************************)
\* s.startswith(p)
StartsWith(s, p) == Len(s) >= Len(p) /\ SubSeq(s, 1, Len(p)) = p

\* s[n:]
Drop(s, n) == SubSeq(s, n + 1, Len(s))

\* a rewrite of the end of the string only: `old` is replaced where s ends with it
ReplaceTrailing(s, old, new) ==
    IF Len(s) >= Len(old) /\ SubSeq(s, Len(s) - Len(old) + 1, Len(s)) = old
    THEN SubSeq(s, 1, Len(s) - Len(old)) \o new
    ELSE s

RECURSIVE Replace(_, _, _)
\* s.replace(old, new): every non-overlapping occurrence, scanning from the left
Replace(s, old, new) ==
    IF Len(s) < Len(old) THEN s
    ELSE IF StartsWith(s, old) THEN new \o Replace(Drop(s, Len(old)), old, new)
    ELSE <<s[1]>> \o Replace(Drop(s, 1), old, new)

RECURSIVE Concat(_)
\* concatenation of a sequence of sequences
Concat(ss) == IF ss = <<>> THEN <<>> ELSE Head(ss) \o Concat(Tail(ss))

(***************************************************************************)
(* HexDecoder                                                              *)
(***************************************************************************)
translation_table ==
    ("79" :> "A") @@ ("7a" :> "B") @@ ("7b" :> "C") @@ ("7c" :> "D") @@ ("7d" :> "E") @@ ("7e" :> "F") @@
    ("7f" :> "G") @@ ("70" :> "H") @@ ("71" :> "I") @@ ("72" :> "J") @@ ("73" :> "K") @@ ("74" :> "L") @@
    ("75" :> "M") @@ ("76" :> "N") @@ ("77" :> "O") @@ ("68" :> "P") @@ ("69" :> "Q") @@ ("6a" :> "R") @@
    ("6b" :> "S") @@ ("6c" :> "T") @@ ("6d" :> "U") @@ ("6e" :> "V") @@ ("6f" :> "W") @@ ("60" :> "X") @@
    ("61" :> "Y") @@ ("62" :> "Z") @@ ("59" :> "a") @@ ("5a" :> "b") @@ ("5b" :> "c") @@ ("5c" :> "d") @@
    ("5d" :> "e") @@ ("5e" :> "f") @@ ("5f" :> "g") @@ ("50" :> "h") @@ ("51" :> "i") @@ ("52" :> "j") @@
    ("53" :> "k") @@ ("54" :> "l") @@ ("55" :> "m") @@ ("56" :> "n") @@ ("57" :> "o") @@ ("48" :> "p") @@
    ("49" :> "q") @@ ("4a" :> "r") @@ ("4b" :> "s") @@ ("4c" :> "t") @@ ("4d" :> "u") @@ ("4e" :> "v") @@
    ("4f" :> "w") @@ ("40" :> "x") @@ ("41" :> "y") @@ ("42" :> "z") @@ ("08" :> "0") @@ ("09" :> "1") @@
    ("0a" :> "2") @@ ("0b" :> "3") @@ ("0c" :> "4") @@ ("0d" :> "5") @@ ("0e" :> "6") @@ ("0f" :> "7") @@
    ("00" :> "8") @@ ("01" :> "9") @@ ("15" :> "-") @@ ("16" :> ".") @@ ("67" :> "_") @@ ("46" :> "~") @@
    ("02" :> ":") @@ ("17" :> "/") @@ ("07" :> "?") @@ ("1b" :> "#") @@ ("63" :> "[") @@ ("65" :> "]") @@
    ("78" :> "@") @@ ("19" :> "!") @@ ("1c" :> "$") @@ ("1e" :> "&") @@ ("10" :> "(") @@ ("11" :> ")") @@
    ("12" :> "*") @@ ("13" :> "+") @@ ("14" :> ",") @@ ("03" :> ";") @@ ("05" :> "=") @@ ("1d" :> "%")

\* the prefix decode removes
Prefix == <<"-", "-">>

\* hex_blob after `if hex_blob.startswith("--"): hex_blob = hex_blob[2:]`
StripPrefix(hex_blob) ==
    IF StartsWith(hex_blob, Prefix) THEN Drop(hex_blob, 2) ELSE hex_blob

RECURSIVE HexPairs(_)
\* re.findall(r"..", s): successive non-overlapping pairs; "." matches no newline,
\* so a position whose pair holds a newline is skipped by one character
HexPairs(s) ==
    IF Len(s) < 2 THEN <<>>
    ELSE IF s[1] # "\n" /\ s[2] # "\n"
         THEN <<s[1] \o s[2]>> \o HexPairs(Drop(s, 2))
         ELSE HexPairs(Drop(s, 1))

RECURSIVE DecodePairsNewestFirst(_)
\* a loop that puts each decoded character in front of the earlier ones
DecodePairsNewestFirst(pairs) ==
    IF pairs = <<>> THEN <<>>
    ELSE DecodePairsNewestFirst(Tail(pairs))
         \o (IF Head(pairs) \in DOMAIN translation_table
             THEN <<translation_table[Head(pairs)]>> ELSE <<>>)

RECURSIVE DecodePairsBlankForUnknown(_)
\* a loop that leaves a blank where a pair is unknown
DecodePairsBlankForUnknown(pairs) ==
    IF pairs = <<>> THEN <<>>
    ELSE (IF Head(pairs) \in DOMAIN translation_table
          THEN <<translation_table[Head(pairs)]>> ELSE <<" ">>)
         \o DecodePairsBlankForUnknown(Tail(pairs))

RECURSIVE DecodePairs(_)
\* the loop over hex_pairs: known pairs are appended, unknown pairs skipped
DecodePairs(pairs) ==
    IF pairs = <<>> THEN <<>>
    ELSE (IF Head(pairs) \in DOMAIN translation_table
          THEN <<translation_table[Head(pairs)]>> ELSE <<>>)
         \o DecodePairs(Tail(pairs))

ClockOld == <<"/", "c", "l", "o", "c", "k">>
ClockNew == <<"/", "c", "l", "o", "c", "k", ".", "j", "s", "o", "n">>

\* decode without its length validation: no token is rejected
InvalidHexLengthSkipped(hex_blob) == FALSE

\* `if len(hex_blob) % 2 != 0`: TRUE when decode rejects the token
InvalidHexLength(hex_blob) == Len(hex_blob) % 2 # 0

\* decoded_chars when decode leaves: empty when the token was rejected before
\* the loop, else what the loop over hex_pairs appended
Assembled(hex_blob) ==
    IF hex_blob = <<>> THEN <<>>
    ELSE LET blob == StripPrefix(hex_blob) IN
         IF InvalidHexLength(blob) THEN <<>>
         ELSE DecodePairs(HexPairs(blob))

\* HexDecoder.decode; <<>> is the empty string
decode(hex_blob) ==
    IF hex_blob = <<>> THEN <<>>     \* ValueError, caught: return ""
    ELSE LET blob == StripPrefix(hex_blob) IN
         IF InvalidHexLength(blob) THEN <<>>
         ELSE Replace(DecodePairs(HexPairs(blob)), ClockOld, ClockNew)

(***************************************************************************)
(* Provider registry (ProviderManager.providers), in dict insertion order. *)
(***************************************************************************)
Keys == <<"wixmp", "sharepoint", "youtube", "hianime">>

KeySet == { Keys[i] : i \in 1..Len(Keys) }

providers ==
    [ wixmp      |-> [ name |-> "Wixmp", tag |-> "Default", priority |-> 1,
                       supports_mp4 |-> TRUE, supports_m3u8 |-> TRUE,
                       quality_levels |-> <<"1080p", "720p", "480p", "360p">> ],
      sharepoint |-> [ name |-> "SharePoint", tag |-> "S-mp4", priority |-> 2,
                       supports_mp4 |-> TRUE, supports_m3u8 |-> FALSE,
                       quality_levels |-> <<"MP4">> ],
      youtube    |-> [ name |-> "YouTube", tag |-> "Yt-mp4", priority |-> 3,
                       supports_mp4 |-> TRUE, supports_m3u8 |-> FALSE,
                       quality_levels |-> <<"YouTube">> ],
      hianime    |-> [ name |-> "HiAnime", tag |-> "Luf-Mp4", priority |-> 4,
                       supports_mp4 |-> FALSE, supports_m3u8 |-> TRUE,
                       quality_levels |-> <<"HLS">> ] ]

(***************************************************************************)
(* Ranking: sort_key and the stable list.sort of get_all_links.            *)
(* A link is the tuple <<fmt, quality, url, provider>>.                    *)
(***************************************************************************)
\* provider looked up by registry key instead of display name: never found
ProviderPriorityByKey(provider) ==
    IF provider \in KeySet THEN providers[provider].priority ELSE 999

\* next((p['priority'] for p in providers.values() if p['name'] == provider), 999)
provider_priority(provider) ==
    LET hits == { i \in 1..Len(Keys) : providers[Keys[i]].name = provider } IN
    IF hits = {} THEN 999
    ELSE providers[Keys[CHOOSE i \in hits : \A j \in hits : i <= j]].priority

\* the labels of the dict literal in sort_key
RankedQualities == { "1080p", "720p", "480p", "360p" }

\* unknown labels ranked first instead of last
QualityPriorityUnknownFirst(quality) ==
    CASE quality = "1080p" -> 1
      [] quality = "720p"  -> 2
      [] quality = "480p"  -> 3
      [] quality = "360p"  -> 4
      [] OTHER             -> 0

\* {'1080p': 1, '720p': 2, '480p': 3, '360p': 4}.get(quality, 5)
quality_priority(quality) ==
    CASE quality = "1080p" -> 1
      [] quality = "720p"  -> 2
      [] quality = "480p"  -> 3
      [] quality = "360p"  -> 4
      [] OTHER             -> 5

\* {'mp4': 1, 'm3u8': 2}.get(fmt, 3)
format_priority(fmt) ==
    CASE fmt = "mp4"  -> 1
      [] fmt = "m3u8" -> 2
      [] OTHER        -> 3

sort_key(link) ==
    <<provider_priority(link[4]), format_priority(link[1]), quality_priority(link[2])>>

\* Python's order on tuples of integers: a < b
KeyLess(a, b) ==
    \/ a[1] < b[1]
    \/ a[1] = b[1] /\ a[2] < b[2]
    \/ a[1] = b[1] /\ a[2] = b[2] /\ a[3] < b[3]

RECURSIVE InsertBeforeEqual(_, _)
\* insertion that puts x in front of the elements whose key equals its own
InsertBeforeEqual(sorted, x) ==
    IF sorted = <<>> THEN <<x>>
    ELSE IF KeyLess(sort_key(Head(sorted)), sort_key(x))
         THEN <<Head(sorted)>> \o InsertBeforeEqual(Tail(sorted), x)
         ELSE <<x>> \o sorted

RECURSIVE Insert(_, _)
\* x placed behind every element whose key is not greater than its own: list.sort
\* is stable, elements with equal keys keep their order
Insert(sorted, x) ==
    IF sorted = <<>> THEN <<x>>
    ELSE IF KeyLess(sort_key(x), sort_key(Head(sorted)))
         THEN <<x>> \o sorted
         ELSE <<Head(sorted)>> \o Insert(Tail(sorted), x)

RECURSIVE Rank(_)
\* all_links.sort(key=sort_key)
Rank(links) ==
    IF links = <<>> THEN <<>>
    ELSE Insert(Rank(SubSeq(links, 1, Len(links) - 1)), links[Len(links)])

(***************************************************************************)
(* Performance tracker: JSONDataManager.update_provider_stats on the file  *)
(* provider_stats.json.  A file content is the "providers" object: a       *)
(* function from provider names to records.  avg_response_time is kept as  *)
(* an exact fraction <<numerator, denominator>>; last_used and             *)
(* last_updated are timestamps no operation reads and are left out.        *)
(***************************************************************************)
RECURSIVE Gcd(_, _)
Gcd(a, b) == IF b = 0 THEN a ELSE Gcd(b, a % b)

\* the fraction n/d in lowest terms
Frac(n, d) == LET g == Gcd(n, d) IN IF g = 0 THEN <<0, 1>> ELSE <<n \div g, d \div g>>

NewProviderStats ==
    [ success_count |-> 0, failure_count |-> 0, avg_response_time |-> <<0, 1>> ]

\* an update whose average restarts from response_time while the provider has
\* at most one success
UpdatedStatsResetOnFirstSuccess(data, provider, success, response_time) ==
    LET old == IF provider \in DOMAIN data THEN data[provider] ELSE NewProviderStats
        sc == IF success THEN old.success_count + 1 ELSE old.success_count
        fc == IF success THEN old.failure_count ELSE old.failure_count + 1
        total_requests == sc + fc
        current_avg == old.avg_response_time
        avg == IF sc > 1
               THEN Frac(current_avg[1] * (total_requests - 1) + response_time * current_avg[2],
                         current_avg[2] * total_requests)
               ELSE <<response_time, 1>>
        new == [ success_count |-> sc, failure_count |-> fc, avg_response_time |-> avg ]
    IN  [ n \in DOMAIN data \cup {provider} |-> IF n = provider THEN new ELSE data[n] ]

\* `data` after the counter and average updates of update_provider_stats
UpdatedStats(data, provider, success, response_time) ==
    LET old == IF provider \in DOMAIN data THEN data[provider] ELSE NewProviderStats
        sc == IF success THEN old.success_count + 1 ELSE old.success_count
        fc == IF success THEN old.failure_count ELSE old.failure_count + 1
        total_requests == sc + fc
        current_avg == old.avg_response_time
        avg == IF total_requests > 1
               THEN Frac(current_avg[1] * (total_requests - 1) + response_time * current_avg[2],
                         current_avg[2] * total_requests)
               ELSE <<response_time, 1>>
        new == [ success_count |-> sc, failure_count |-> fc, avg_response_time |-> avg ]
    IN  [ n \in DOMAIN data \cup {provider} |-> IF n = provider THEN new ELSE data[n] ]

\* the absent file provider_stats.tmp
NoFile == [ absent |-> TRUE ]

RECURSIVE RecordAll(_, _, _)
\* the file after update_provider_stats(name, True, 1) ran n times, one call at a
\* time, for each provider of the registry from position i on
RecordAll(data, i, n) ==
    IF i > Len(Keys) THEN data
    ELSE IF n = 0 THEN RecordAll(data, i + 1, 0)
    ELSE LET RECURSIVE Times(_, _)
             Times(d, k) == IF k = 0 THEN d
                            ELSE Times(UpdatedStats(d, providers[Keys[i]].name, TRUE, 1), k - 1)
         IN  RecordAll(Times(data, n), i + 1, n)

\* the "providers" object init_json_files writes
EmptyStats == [ n \in {} |-> NewProviderStats ]

\* the stats files a call can start from: freshly created, or after earlier
\* sequential recordings
PriorStats == { EmptyStats, RecordAll(EmptyStats, 1, 1) }

(***************************************************************************)
(* Network: what a request can meet.                                       *)
(***************************************************************************)
\* config NETWORK/timeout, fallback and validated default
NETWORK_timeout == 15

\* the timeout argument of the metadata query's session.get: none is passed
MetaQueryTimeout == {}

\* the timeout argument of fetch_provider_data's session.get
FetchTimeout == { NETWORK_timeout }

\* a request returns (with a response or an exception) when the endpoint
\* answers, or when its timeout elapses
Returns(endpointAnswers, timeout) == endpointAnswers \/ timeout # {}

ALLANIME_BASE == "allanime.day"

\* the response times, in whole time units, a fetch of the model measures
ResponseTimes == { 2 }

(***************************************************************************)
(* Format extractors.  A URL is the sequence of its parts; quality labels   *)
(* are strings, as in the upstream answers.                                *)
(*                                                                         *)
(* A Wixmp response text is the sequence of the URLs that                  *)
(* re.findall(r'https://repackager\.wixmp\.com/[^"\'>\s]+') finds in it,    *)
(* each written                                                            *)
(*   https://repackager.wixmp.com/ base /, q1,q2,... , tail                *)
(* and kept as the record of its base (a sequence of parts), its list of   *)
(* labels (an empty label is "", none of them holds a blank) and its tail. *)
(*                                                                         *)
(* A YouTube or HiAnime response text is the sequence of the URLs written  *)
(* in it, each with `member`: whether it is written as "url":"URL" with no *)
(* blank (else it stands bare, between blanks or quotes).                  *)
(***************************************************************************)
\* the tail of a repackager URL
UrlsetTail == "/mp4/file.mp4.urlset/master.m3u8"

\* whether the pattern of extract_wixmp_links matches the URL: the base is
\* video.wixstatic.com/video/<one segment>, the list between "/," and "," has
\* at least one label and no empty one, and the tail follows
WixmpPattern(repackager_url) ==
    /\ Len(repackager_url.base) = 3
    /\ repackager_url.base[1] = "video.wixstatic.com"
    /\ repackager_url.base[2] = "/video/"
    /\ repackager_url.qualities # <<>>
    /\ \A i \in 1..Len(repackager_url.qualities) : repackager_url.qualities[i] # ""
    /\ repackager_url.tail = UrlsetTail

\* an extractor that reads the first label of the list only
extract_wixmp_links_first_label(repackager_url) ==
    IF ~WixmpPattern(repackager_url) THEN <<>>
    ELSE << <<"mp4", repackager_url.qualities[1],
              <<"https://">> \o repackager_url.base
                 \o <<"/", repackager_url.qualities[1], "/mp4/file.mp4">> >> >>

\* extract_wixmp_links on one repackager URL
extract_wixmp_links(repackager_url) ==
    IF ~WixmpPattern(repackager_url) THEN <<>>
    ELSE LET qualities == repackager_url.qualities IN
         [ i \in 1..Len(qualities) |->
             <<"mp4", qualities[i],
               <<"https://">> \o repackager_url.base
                  \o <<"/", qualities[i], "/mp4/file.mp4">> >> ]

(***************************************************************************)
(* extract_sharepoint_links.  A SharePoint response text is the record     *)
(*   shape    "object": the text starts with "{" and json.loads returns an *)
(*                      object whose "links" member is a list;             *)
(*            "nolinks": it is a JSON object without a "links" list;       *)
(*            "broken": it starts with "{" and json.loads raises;          *)
(*            "text": it does not start with "{";                          *)
(*   elements the {...} objects written in the text, in order (for shape   *)
(*            "object": the elements of the links list), each with its     *)
(*            "link" URL (<<>> when it has none), its mp4 flag, its        *)
(*            resolutionStr (Absent when it has none) and whether it is    *)
(*            written compactly, as "link":"URL" with no blank;            *)
(*   extras   the "link":"URL" and "src":"URL" members written behind them.*)
(* A URL is the sequence of its parts.                                     *)
(***************************************************************************)
Absent == "(absent)"

\* re: [^"]*sharepoint[^"]*download[^"]*
PatternUrl(u) == \E i, j \in 1..Len(u) : i < j /\ u[i] = "sharepoint" /\ u[j] = "/download"

\* 'sharepoint.com' in match and 'download' in match
DomainAndDownload(u) ==
    /\ \E i \in 1..(Len(u) - 1) : u[i] = "sharepoint" /\ u[i + 1] = ".com"
    /\ \E i \in 1..Len(u) : u[i] = "/download"

RECURSIVE JsonLinks(_)
\* the loop over json_data["links"]
JsonLinks(elements) ==
    IF elements = <<>> THEN <<>>
    ELSE LET link_obj == Head(elements) IN
         (IF link_obj.link # <<>> /\ link_obj.mp4
          THEN << <<"mp4",
                    IF link_obj.resolutionStr = Absent THEN "SharePoint"
                    ELSE link_obj.resolutionStr,
                    link_obj.link>> >>
          ELSE <<>>) \o JsonLinks(Tail(elements))

\* re.findall of one pattern ('"link":"(...)"' or '"src":"(...)"') in the text
FindAll(key, body) ==
    (IF key = "link"
     THEN LET written == SelectSeq(body.elements,
                                   LAMBDA e : e.link # <<>> /\ e.compact /\ PatternUrl(e.link))
          IN  [ i \in 1..Len(written) |-> written[i].link ]
     ELSE <<>>)
    \o LET found == SelectSeq(body.extras, LAMBDA x : x.key = key /\ PatternUrl(x.url))
       IN  [ i \in 1..Len(found) |-> found[i].url ]

\* the loop over the two patterns and their matches
RegexLinks(body) ==
    LET matches == FindAll("link", body) \o FindAll("src", body)
        kept == SelectSeq(matches, DomainAndDownload)
    IN  [ i \in 1..Len(kept) |-> <<"mp4", "SharePoint", kept[i]>> ]

extract_sharepoint_links(body) ==
    IF body.shape = "broken" THEN <<>>   \* json.loads raises: except, return []
    ELSE LET links == IF body.shape = "object" THEN JsonLinks(body.elements) ELSE <<>>
         IN  IF links # <<>> THEN links ELSE RegexLinks(body)

\* the positions of u at which https://tools.fast4speed.rsvp starts, followed
\* by at least one more character
FastSpeedStarts(u) ==
    { i \in 1..(Len(u) - 2) : u[i] = "https://" /\ u[i + 1] = "tools.fast4speed.rsvp" }

\* r'(https://tools\.fast4speed\.rsvp[^"\s]+)': the match inside a written URL
FastSpeedMatch(u) ==
    LET i == CHOOSE n \in FastSpeedStarts(u) : \A m \in FastSpeedStarts(u) : n <= m
    IN  SubSeq(u, i, Len(u))

\* the "double domain" fix applied to a match
DomainFix(match) ==
    IF Len(match) >= 2 /\ match[1] = "https://allanime.day" /\ match[2] = "https://"
    THEN SelectSeq(match, LAMBDA part : part # "https://allanime.day")
    ELSE match

\* extract_youtube_links: the matches of the first pattern, then those of
\* the second, every one labelled YouTube
extract_youtube_links(body) ==
    LET first == SelectSeq(body, LAMBDA w : FastSpeedStarts(w.url) # {})
        second == SelectSeq(body, LAMBDA w :
                     w.member /\ \E i \in 1..Len(w.url) :
                                    w.url[i] \in { "tools.fast4speed", "tools.fast4speed.rsvp" })
    IN  [ i \in 1..Len(first) |-> <<"mp4", "YouTube", DomainFix(FastSpeedMatch(first[i].url))>> ]
        \o [ i \in 1..Len(second) |-> <<"mp4", "YouTube", DomainFix(second[i].url)>> ]

\* a test for the word master anywhere in the URL
ContainsMaster(match) == \E i \in 1..Len(match) : match[i] = "master"

\* 'master.m3u8' in match
ContainsMasterM3u8(match) ==
    \E i \in 1..(Len(match) - 1) : match[i] = "master" /\ match[i + 1] = ".m3u8"

\* the tuple extract_hianime_links appends for a match
HlsLink(match) ==
    <<"m3u8", IF ContainsMasterM3u8(match) THEN "HLS Master" ELSE "HLS Stream", match>>

\* extract_hianime_links: the matches of '"url":"([^"]*\.m3u8[^"]*)"', then
\* those of '(https://[^"\s]+\.m3u8[^"\s]*)'
extract_hianime_links(body) ==
    LET first == SelectSeq(body, LAMBDA w :
                    w.member /\ \E i \in 1..Len(w.url) : w.url[i] = ".m3u8")
        second == SelectSeq(body, LAMBDA w :
                     /\ Len(w.url) >= 3 /\ w.url[1] = "https://"
                     /\ \E i \in 3..Len(w.url) : w.url[i] = ".m3u8")
    IN  [ i \in 1..Len(first) |-> HlsLink(first[i].url) ]
        \o [ i \in 1..Len(second) |-> HlsLink(second[i].url) ]

\* the if/elif chain of the collection loop: the (fmt, quality, url) triples of a body
Extracted(provider_key, response_text) ==
    CASE provider_key = "wixmp" ->
            Concat([ i \in 1..Len(response_text) |-> extract_wixmp_links(response_text[i]) ])
      [] provider_key = "sharepoint" -> extract_sharepoint_links(response_text)
      [] provider_key = "youtube" -> extract_youtube_links(response_text)
      [] provider_key = "hianime" -> extract_hianime_links(response_text)

\* triples tagged with the provider's tag instead of its display name
TaggedWithTag(provider_key, triples) ==
    [ i \in 1..Len(triples) |->
        <<triples[i][1], triples[i][2], triples[i][3], providers[provider_key].tag>> ]

\* triples tagged with the provider's display name
Tagged(provider_key, triples) ==
    [ i \in 1..Len(triples) |->
        <<triples[i][1], triples[i][2], triples[i][3], providers[provider_key].name>> ]

\* the bodies a provider can answer with
ResponseBodies(provider_key) ==
    CASE provider_key = "wixmp" ->
            { << [ base |-> <<"video.wixstatic.com", "/video/", "v1">>,
                   qualities |-> <<"720p", "1080p">>, tail |-> UrlsetTail ],
                 [ base |-> <<"video.wixstatic.com", "/video/", "v2">>,
                   qualities |-> <<"720p">>, tail |-> "/mp4/file.mp4" ] >> }
      [] provider_key = "sharepoint" ->
            { [ shape |-> "object",
                elements |->
                  << [ link |-> <<"https://", "x.", "sharepoint", ".com", "/download", "/a">>,
                       mp4 |-> TRUE, resolutionStr |-> Absent, compact |-> TRUE ],
                     [ link |-> <<"https://", "x.", "sharepoint", ".com", "/download", "/b">>,
                       mp4 |-> TRUE, resolutionStr |-> "1080p", compact |-> TRUE ] >>,
                extras |-> <<>> ] }
      [] provider_key = "youtube" ->
            { << [ url |-> <<"https://", "tools.fast4speed.rsvp", "/v">>, member |-> FALSE ] >> }
      [] provider_key = "hianime" ->
            { << [ url |-> <<"https://", "h.example", "/v/", "index", ".m3u8">>,
                   member |-> FALSE ],
                 [ url |-> <<"https://", "h.example", "/v/", "master", ".m3u8">>,
                   member |-> TRUE ] >> }

(***************************************************************************)
(* Source matching: the provider regexes applied to the source blob.       *)
(* An entry of sourceUrls is [sourceName, sourceUrl]; its line in the blob *)
(* is sourceName ":" sourceUrl.                                            *)
(***************************************************************************)
\* the characters [a-f0-9] matches under re.IGNORECASE
HexChars == { "0", "1", "2", "3", "4", "5", "6", "7", "8", "9",
              "a", "b", "c", "d", "e", "f", "A", "B", "C", "D", "E", "F" }

\* lower-casing of the source names and tags of the model
CaseFold(name) ==
    CASE name = "Default" -> "default"
      [] name = "S-mp4"   -> "s-mp4"
      [] name = "Yt-mp4"  -> "yt-mp4"
      [] name = "Luf-Mp4" -> "luf-mp4"
      [] name = "Luf-mp4" -> "luf-mp4"
      [] OTHER            -> name

\* a pattern that lost its tag: every source name matches
TagMatchesAnyName(tag, name) == TRUE

\* the tag part of a provider regex against a source name, case-insensitively
TagMatches(tag, name) == CaseFold(tag) = CaseFold(name)

RECURSIVE HexRun(_)
\* the longest prefix of s made of hex characters: what [a-f0-9]+ consumes
HexRun(s) ==
    IF s = <<>> \/ s[1] \notin HexChars THEN <<>>
    ELSE <<s[1]>> \o HexRun(Tail(s))

\* whether `Tag:(--[a-f0-9]+)` matches the line of this entry
EntryMatches(provider_key, entry) ==
    /\ entry.sourceName # "" /\ entry.sourceUrl # <<>>
    /\ TagMatches(providers[provider_key].tag, entry.sourceName)
    /\ StartsWith(entry.sourceUrl, Prefix)
    /\ HexRun(Drop(entry.sourceUrl, 2)) # <<>>

\* re.search(regex, source_response, re.IGNORECASE): the positions that match
MatchPositions(provider_key, sources) ==
    { i \in 1..Len(sources) : EntryMatches(provider_key, sources[i]) }

\* match.group(1) of the leftmost match
MatchedToken(provider_key, sources) ==
    LET hits == MatchPositions(provider_key, sources)
        i == CHOOSE k \in hits : \A j \in hits : k <= j
    IN  Prefix \o HexRun(Drop(sources[i].sourceUrl, 2))

\* the path the submit loop fetches for a provider, <<>> when it submits nothing
DecodedUrl(provider_key, sources) ==
    IF MatchPositions(provider_key, sources) = {} THEN <<>>
    ELSE decode(MatchedToken(provider_key, sources))

\* the URL built on the host of the metadata API instead of ALLANIME_BASE
FullUrlOnApiHost(decoded_url) == <<"https://", "api.allanime.day">> \o decoded_url

\* f"https://{ALLANIME_BASE}{decoded_url}"
FullUrl(decoded_url) == <<"https://", ALLANIME_BASE>> \o decoded_url

\* source URLs of the model: a token that decodes to "/a"; one of odd length;
\* one of unknown pairs only; a URL without the "--" prefix
SourceTokens ==
    { <<"-", "-", "1", "7", "5", "9">>, <<"-", "-", "1", "7", "5">>,
      <<"-", "-", "f", "f", "f", "f">>, <<"1", "7", "5", "9">> }

\* the name the metadata endpoint gives a provider's source
SourceName(provider_key) ==
    IF provider_key = "hianime" THEN "Luf-mp4" ELSE providers[provider_key].tag

\* a source of no registered provider, present in every non-empty answer
OtherSource == [ sourceName |-> "Other", sourceUrl |-> <<"-", "-", "1", "7", "5", "9">> ]

RECURSIVE SourcesFrom(_, _)
SourcesFrom(f, i) ==
    IF i > Len(Keys) THEN <<>>
    ELSE (IF f[Keys[i]] = <<>> THEN <<>>
          ELSE << [ sourceName |-> SourceName(Keys[i]), sourceUrl |-> f[Keys[i]] ] >>)
         \o SourcesFrom(f, i + 1)

\* the non-empty sourceUrls arrays of the model
SourceLists ==
    { <<OtherSource>> \o SourcesFrom(f, 1) : f \in [KeySet -> SourceTokens \cup { <<>> }] }

(***************************************************************************)
(* get_all_links                                                           *)
(***************************************************************************)
NoRet == [ kind |-> "none", value |-> <<>> ]

\* an exception handler that lets the exception reach the caller
OnExceptionRaise == [ kind |-> "raise", value |-> <<>> ]

\* `except Exception as e: ... return []`
OnException == [ kind |-> "return", value |-> <<>> ]

\* `if not source_urls: ... return []`
NoSourcesReturn == [ kind |-> "return", value |-> <<>> ]

\* a failed provider empties what was gathered so far
AccumulateOrAbort(links, provider_key, result) ==
    IF result.status = "success"
    THEN links \o Tagged(provider_key, Extracted(provider_key, result.response_text))
    ELSE <<>>

\* one round of the as_completed loop: all_links after the future's result
Accumulate(links, provider_key, result) ==
    IF result.status = "success"
    THEN links \o Tagged(provider_key, Extracted(provider_key, result.response_text))
    ELSE links

NoResult == [ status |-> "none", response_text |-> <<>> ]

\* ThreadPoolExecutor(max_workers=4)
max_workers == 4

\* the tasks a pool thread is running: fetching, or saving the statistics
Busy(w) == Cardinality({ k \in KeySet : w[k] \in { "fetch", "write", "replace" } })

\* a pool of a single thread
HasFreeWorkerSingle(busy) == busy < 1

\* executor.submit starts a thread for the task while fewer than max_workers
\* run; else the task waits in the work queue
HasFreeWorker(busy) == busy < max_workers

\* the submitted tasks still waiting in the work queue, in submission order
Queued(fs, w) == SelectSeq(fs, LAMBDA k : w[k] = "queued")

\* a worker that fetches again when its fetch failed
AfterFetchRetry(success) == IF success THEN "write" ELSE "fetch"

\* where fetch_provider_data goes once session.get returned or raised: into
\* update_provider_stats, whatever the outcome
AfterFetch(success) == "write"

\* a collection loop that stops after the first finished future
LoopExhaustedAfterFirst(fs, consumed) == consumed # {} \/ fs = {}

\* `for future in as_completed(futures)` ends when every future was yielded
LoopExhausted(fs, consumed) == consumed = fs

IdleWorkers == [ k \in KeySet |-> "none" ]

ResInit(stats) ==
    /\ pc = "idle" /\ metaReply = "none" /\ metaResult = "none"
    /\ source_urls = <<>> /\ idx = 0 /\ futures = <<>>
    /\ wpc = IdleWorkers
    /\ wres = [ k \in KeySet |-> NoResult ]
    /\ wdata = [ k \in KeySet |-> NoFile ]
    /\ wrt = [ k \in KeySet |-> 0 ]
    /\ statsFile = stats /\ stats0 = stats /\ tmpFile = NoFile
    /\ all_links = <<>> /\ collected = {} /\ gathered = <<>> /\ ret = NoRet
    /\ recorded = [ k \in KeySet |-> 0 ]
    /\ requested = <<>>

RankOff == rin = <<>> /\ rout = <<>> /\ rout2 = <<>> /\ rpc = "off"

DecOff == tok = <<>> /\ decoded_chars = <<>> /\ dout = <<>> /\ dpc = "off"

NoCall == [ provider |-> "", success |-> FALSE, response_time |-> 0 ]

TrkOff ==
    /\ tfile = EmptyStats /\ torder = <<>> /\ tprev = EmptyStats /\ tcall = NoCall
    /\ tcount = 0 /\ rankings = <<>> /\ tpc = "off"

ExtOff ==
    /\ ebody = [ shape |-> "text", elements |-> <<>>, extras |-> <<>> ]
    /\ elinks = <<>> /\ epc = "off"

MedOff == mkey = "none" /\ mtext = <<>> /\ mlinks = <<>> /\ mpc = "off"

NoArgs == [ anime_id |-> "", anime_name |-> "", episode |-> "", mode |-> "" ]

HistOff ==
    hfile = <<>> /\ hnow = 0 /\ hargs = NoArgs /\ hret = FALSE /\ hcount = 0 /\ hpc = "off"

\* current_process is None
None == 0

NoCallYet == [ op |-> "none", returned |-> None ]

PlyOff == procs = <<>> /\ current_process = None /\ plast = NoCallYet /\ ppc = "off"

\* a falsy episode: None, or the empty string
NoEpisode == ""

NoAction == -1

SessOff ==
    /\ episodes = <<>> /\ current_episode = NoEpisode /\ svariant = "none"
    /\ saction = NoAction /\ spos = "off"

Init ==
    /\ (\E stats \in PriorStats : ResInit(stats)) /\ RankOff /\ DecOff /\ TrkOff /\ ExtOff /\ MedOff
    /\ HistOff /\ PlyOff /\ SessOff

\* get_all_links is called: the metadata query is sent
StartCall ==
    /\ pc = "idle"
    /\ pc' = "query"
    /\ metaReply' \in { "answers", "silent" }
    /\ UNCHANGED <<metaResult, source_urls, idx, futures, wpc, wres, wdata, wrt,
                   statsFile, tmpFile, all_links, collected, gathered, ret, stats0,
                   recorded,
                   requested>>
    /\ UNCHANGED <<rankVars, decVars, trkVars, extVars, medVars, histVars, plyVars, sessVars>>

\* the query raises (transport error, HTTP error status, malformed JSON, or a
\* timeout if one is set): the outer handler returns
MetaFail ==
    /\ pc = "query"
    /\ Returns(metaReply = "answers", MetaQueryTimeout)
    /\ metaResult' = "error"
    /\ ret' = OnException
    /\ pc' = "done"
    /\ UNCHANGED <<metaReply, source_urls, idx, futures, wpc, wres, wdata, wrt,
                   statsFile, tmpFile, all_links, collected, gathered, stats0,
                   recorded,
                   requested>>
    /\ UNCHANGED <<rankVars, decVars, trkVars, extVars, medVars, histVars, plyVars, sessVars>>

\* the answer holds no sourceUrls
MetaEmpty ==
    /\ pc = "query"
    /\ metaReply = "answers"
    /\ metaResult' = "empty"
    /\ ret' = NoSourcesReturn
    /\ pc' = "done"
    /\ UNCHANGED <<metaReply, source_urls, idx, futures, wpc, wres, wdata, wrt,
                   statsFile, tmpFile, all_links, collected, gathered, stats0,
                   recorded,
                   requested>>
    /\ UNCHANGED <<rankVars, decVars, trkVars, extVars, medVars, histVars, plyVars, sessVars>>

\* the answer holds sourceUrls: the executor is entered
MetaOk ==
    /\ pc = "query"
    /\ metaReply = "answers"
    /\ \E sources \in SourceLists : source_urls' = sources
    /\ metaResult' = "ok"
    /\ pc' = "submit"
    /\ idx' = 1
    /\ UNCHANGED <<metaReply, futures, wpc, wres, wdata, wrt, statsFile, tmpFile,
                   all_links, collected, gathered, ret, stats0, recorded, requested>>
    /\ UNCHANGED <<rankVars, decVars, trkVars, extVars, medVars, histVars, plyVars, sessVars>>

\* one round of the loop over self.providers.items(); after the last provider
\* the thread enters the as_completed loop
Submit ==
    /\ pc = "submit"
    /\ LET provider_key == Keys[idx]
           decoded_url == DecodedUrl(provider_key, source_urls)
       IN  IF decoded_url # <<>>
           THEN /\ futures' = Append(futures, provider_key)
                /\ wpc' = [wpc EXCEPT ![provider_key] =
                             IF HasFreeWorker(Busy(wpc)) THEN "fetch" ELSE "queued"]
                /\ requested' = Append(requested, <<provider_key, FullUrl(decoded_url)>>)
           ELSE UNCHANGED <<futures, wpc, requested>>
    /\ idx' = idx + 1
    /\ pc' = IF idx = Len(Keys) THEN "collect" ELSE "submit"
    /\ UNCHANGED <<metaReply, metaResult, source_urls, wres, wdata, wrt, statsFile,
                   tmpFile, all_links, collected, gathered, ret, stats0, recorded>>
    /\ UNCHANGED <<rankVars, decVars, trkVars, extVars, medVars, histVars, plyVars, sessVars>>

\* fetch_provider_data: session.get returns or raises (HTTP error, network
\* error, timeout); update_provider_stats is called with the outcome, loads
\* the file (_load_json) and updates the counters and the average in its
\* local copy
FetchReturn(provider_key) ==
    /\ wpc[provider_key] = "fetch"
    /\ \E answers \in BOOLEAN, response_time \in ResponseTimes :
         /\ Returns(answers, FetchTimeout)
         /\ \E success \in { b \in BOOLEAN : b => answers },
               body \in ResponseBodies(provider_key) :
              /\ wpc' = [wpc EXCEPT ![provider_key] = AfterFetch(success)]
              /\ wres' = [wres EXCEPT ![provider_key] =
                            IF success
                            THEN [ status |-> "success", response_text |-> body ]
                            ELSE [ status |-> "error", response_text |-> <<>> ]]
              /\ wdata' = [wdata EXCEPT ![provider_key] =
                             UpdatedStats(statsFile, providers[provider_key].name,
                                          success, response_time)]
         /\ wrt' = [wrt EXCEPT ![provider_key] = response_time]
    /\ recorded' = [recorded EXCEPT ![provider_key] = @ + 1]
    /\ UNCHANGED <<pc, metaReply, metaResult, source_urls, idx, futures,
                   statsFile, tmpFile, all_links, collected, gathered, ret, stats0,
                   requested>>
    /\ UNCHANGED <<rankVars, decVars, trkVars, extVars, medVars, histVars, plyVars, sessVars>>

\* _save_json: the local copy is dumped into provider_stats.tmp
WriteTmp(provider_key) ==
    /\ wpc[provider_key] = "write"
    /\ tmpFile' = wdata[provider_key]
    /\ wpc' = [wpc EXCEPT ![provider_key] = "replace"]
    /\ UNCHANGED <<pc, metaReply, metaResult, source_urls, idx, futures, wres, wdata,
                   wrt, statsFile, all_links, collected, gathered, ret, stats0, recorded,
                   requested>>
    /\ UNCHANGED <<rankVars, decVars, trkVars, extVars, medVars, histVars, plyVars, sessVars>>

\* _save_json: temp_file.replace(file_path); with the temporary file already
\* moved by another worker it raises, the save fails and the error is logged.
\* fetch_provider_data then returns its dict: the future is done and the
\* worker's local copy is gone; the pool thread takes the next task of the
\* work queue, if one waits
ReplaceTmp(provider_key) ==
    /\ wpc[provider_key] = "replace"
    /\ IF tmpFile # NoFile
       THEN statsFile' = tmpFile /\ tmpFile' = NoFile
       ELSE UNCHANGED <<statsFile, tmpFile>>
    /\ wdata' = [wdata EXCEPT ![provider_key] = NoFile]
    /\ LET waiting == Queued(futures, wpc) IN
       wpc' = IF waiting = <<>> THEN [wpc EXCEPT ![provider_key] = "done"]
              ELSE [wpc EXCEPT ![provider_key] = "done", ![Head(waiting)] = "fetch"]
    /\ UNCHANGED <<pc, metaReply, metaResult, source_urls, idx, futures, wres, wrt,
                   all_links, collected, gathered, ret, stats0, recorded, requested>>
    /\ UNCHANGED <<rankVars, decVars, trkVars, extVars, medVars, histVars, plyVars, sessVars>>

FutureSet == { futures[i] : i \in 1..Len(futures) }

\* one round of `for future in as_completed(futures)`: a finished future is
\* taken and its links are appended
Collect(provider_key) ==
    /\ pc = "collect"
    /\ provider_key \in FutureSet \ collected
    /\ wpc[provider_key] = "done"
    /\ all_links' = Accumulate(all_links, provider_key, wres[provider_key])
    /\ collected' = collected \cup {provider_key}
    /\ UNCHANGED <<pc, gathered, metaReply, metaResult, source_urls, idx, futures,
                   wpc, wres,
                   wdata, wrt, statsFile, tmpFile, ret, stats0, recorded, requested>>
    /\ UNCHANGED <<rankVars, decVars, trkVars, extVars, medVars, histVars, plyVars, sessVars>>

\* every future was consumed: the executor is left, the links are sorted and
\* returned
Finish ==
    /\ pc = "collect"
    /\ LoopExhausted(FutureSet, collected)
    /\ all_links' = Rank(all_links)
    /\ gathered' = all_links
    /\ ret' = [ kind |-> "return", value |-> Rank(all_links) ]
    /\ pc' = "done"
    /\ UNCHANGED <<metaReply, metaResult, source_urls, idx, futures, wpc, wres,
                   wdata, wrt, statsFile, tmpFile, collected, stats0, recorded,
                   requested>>
    /\ UNCHANGED <<rankVars, decVars, trkVars, extVars, medVars, histVars, plyVars, sessVars>>

Next ==
    \/ StartCall
    \/ MetaFail
    \/ MetaEmpty
    \/ MetaOk
    \/ Submit
    \/ \E k \in KeySet : FetchReturn(k)
    \/ \E k \in KeySet : WriteTmp(k)
    \/ \E k \in KeySet : ReplaceTmp(k)
    \/ \E k \in KeySet : Collect(k)
    \/ Finish

Spec == Init /\ [][Next]_vars

(***************************************************************************)
(* Ranking specification: the sort applied, twice over, to every list of   *)
(* at most MaxLinks links of a small universe.                             *)
(***************************************************************************)
LinkUniverse ==
    { <<"mp4", "1080p", "https://video.wixstatic.com/video/v1/1080p/mp4/file.mp4", "Wixmp">>,
      <<"mp4", "720p", "https://video.wixstatic.com/video/v1/720p/mp4/file.mp4", "Wixmp">>,
      <<"mp4", "720p", "https://x.sharepoint.com/download/a", "SharePoint">>,
      <<"mp4", "1080p", "https://x.sharepoint.com/download/b", "SharePoint">>,
      <<"mp4", "SharePoint", "https://x.sharepoint.com/download/c", "SharePoint">>,
      <<"mp4", "MP4", "https://x.sharepoint.com/download/d", "SharePoint">>,
      <<"mp4", "YouTube", "https://tools.fast4speed.rsvp/v", "YouTube">>,
      <<"m3u8", "HLS Master", "https://h.example/v/master.m3u8", "HiAnime">>,
      <<"m3u8", "HLS Stream", "https://h.example/v/index.m3u8", "HiAnime">>,
      <<"webm", "720p", "https://u.example/v.webm", "Unknown">> }

RECURSIVE ListsUpTo(_)
ListsUpTo(n) ==
    IF n = 0 THEN { <<>> }
    ELSE LET shorter == ListsUpTo(n - 1) IN
         shorter \cup { Append(l, x) : l \in shorter, x \in LinkUniverse }

RankInit ==
    /\ ResInit(EmptyStats) /\ DecOff /\ TrkOff /\ ExtOff /\ MedOff
    /\ HistOff /\ PlyOff /\ SessOff
    /\ rin \in ListsUpTo(MaxLinks)
    /\ rout = <<>> /\ rout2 = <<>> /\ rpc = "in"

\* all_links.sort(key=sort_key) on the input list
SortLinks ==
    /\ rpc = "in"
    /\ rout' = Rank(rin)
    /\ rpc' = "once"
    /\ UNCHANGED <<rin, rout2>>
    /\ UNCHANGED <<resVars, decVars, trkVars, extVars, medVars, histVars, plyVars, sessVars>>

\* the same sort applied to its own output
SortAgain ==
    /\ rpc = "once"
    /\ rout2' = Rank(rout)
    /\ rpc' = "twice"
    /\ UNCHANGED <<rin, rout>>
    /\ UNCHANGED <<resVars, decVars, trkVars, extVars, medVars, histVars, plyVars, sessVars>>

RankNext == SortLinks \/ SortAgain

RankSpec == RankInit /\ [][RankNext]_vars

(***************************************************************************)
(* Decoder specification: decode applied to every token of a bounded set.  *)
(***************************************************************************)
\* pieces tokens are assembled from: the prefix characters, known pairs (the
\* codes of A, P, X, % and /), an unknown pair, single characters, a newline,
\* and the codes of "/clock" and ".json"
TokenPieces ==
    { <<"-">>, <<"-", "-">>, <<"7">>, <<"7", "9">>, <<"6", "8">>, <<"6", "0">>,
      <<"f", "f">>, <<"1", "d">>, <<"\n">>, <<"1", "7">>,
      <<"1", "7", "5", "b", "5", "4", "5", "7", "5", "b", "5", "3">>,
      <<"1", "6", "5", "2", "4", "b", "5", "7", "5", "6">> }

RECURSIVE TokensUpTo(_)
TokensUpTo(n) ==
    IF n = 0 THEN { <<>> }
    ELSE LET shorter == TokensUpTo(n - 1) IN
         shorter \cup { t \o p : t \in shorter, p \in TokenPieces }

Tokens == TokensUpTo(MaxPieces)

DecInit ==
    /\ ResInit(EmptyStats) /\ RankOff /\ TrkOff /\ ExtOff /\ MedOff
    /\ HistOff /\ PlyOff /\ SessOff
    /\ tok \in Tokens
    /\ decoded_chars = <<>> /\ dout = <<>> /\ dpc = "in"

\* decode is called on the token
Decode ==
    /\ dpc = "in"
    /\ decoded_chars' = Assembled(tok)
    /\ dout' = decode(tok)
    /\ dpc' = "out"
    /\ UNCHANGED tok
    /\ UNCHANGED <<resVars, rankVars, trkVars, extVars, medVars, histVars, plyVars, sessVars>>

DecNext == Decode

DecSpec == DecInit /\ [][DecNext]_vars

(***************************************************************************)
(* Tracker specification: update_provider_stats called one call at a time  *)
(* (load, update, save, with no other writer), then get_provider_rankings. *)
(* Response times are whole time units and averages exact fractions; the   *)
(* rounding of the float arithmetic is not modelled.                       *)
(***************************************************************************)
\* most update_provider_stats calls of one run
MaxRecords == 4

\* the display names fetch_provider_data records under
RecordNames == { providers["wixmp"].name, providers["sharepoint"].name }

\* the response times recorded
RecordTimes == { 1, 3 }

\* a stats file after long use: 10000 Wixmp fetches of one time unit each, a
\* third of them successful
LongUseStats ==
    [ n \in { providers["wixmp"].name } |->
        [ success_count |-> 3333, failure_count |-> 6667, avg_response_time |-> <<1, 1>> ] ]

\* n/d rounded to the nearest integer, ties to the even neighbour
RoundHalfEven(n, d) ==
    LET q == n \div d
        r == n % d
    IN  IF 2 * r < d THEN q
        ELSE IF 2 * r > d THEN q + 1
        ELSE IF q % 2 = 0 THEN q ELSE q + 1

\* round((success_count * 100.0) / total_requests, 2), in hundredths of a percent
success_rate(success_count, total_requests) ==
    RoundHalfEven(success_count * 10000, total_requests)

\* the tuple (provider_name, success_count, failure_count, avg_response_time,
\* success_rate) of one provider
ranking_tuple(provider_name, stats) ==
    <<provider_name, stats.success_count, stats.failure_count, stats.avg_response_time,
      success_rate(stats.success_count, stats.success_count + stats.failure_count)>>

\* x < y on fractions with positive denominators
FracLess(x, y) == x[1] * y[2] < y[1] * x[2]

\* an order that looks at the response time before the success rate
RankingLessByTimeFirst(a, b) ==
    \/ FracLess(a[4], b[4])
    \/ a[4] = b[4] /\ a[5] > b[5]

\* key=lambda x: (-x[4], x[3]): whether a's key is smaller than b's
RankingLess(a, b) ==
    \/ a[5] > b[5]
    \/ a[5] = b[5] /\ FracLess(a[4], b[4])

RECURSIVE InsertRanking(_, _)
\* x placed behind every tuple whose key is not greater than its own
InsertRanking(sorted, x) ==
    IF sorted = <<>> THEN <<x>>
    ELSE IF RankingLess(x, Head(sorted)) THEN <<x>> \o sorted
    ELSE <<Head(sorted)>> \o InsertRanking(Tail(sorted), x)

RECURSIVE SortRankings(_)
\* rankings.sort(key=...), a stable sort
SortRankings(l) ==
    IF l = <<>> THEN <<>>
    ELSE InsertRanking(SortRankings(SubSeq(l, 1, Len(l) - 1)), l[Len(l)])

RECURSIVE RankingTuples(_, _)
\* the loop over data["providers"].items(): a tuple for each provider with
\* at least one request, in the order of the keys
RankingTuples(data, order) ==
    IF order = <<>> THEN <<>>
    ELSE (IF data[Head(order)].success_count + data[Head(order)].failure_count > 0
          THEN <<ranking_tuple(Head(order), data[Head(order)])>> ELSE <<>>)
         \o RankingTuples(data, Tail(order))

get_provider_rankings(data, order) == SortRankings(RankingTuples(data, order))

TrkInit ==
    /\ ResInit(EmptyStats) /\ RankOff /\ DecOff /\ ExtOff /\ MedOff
    /\ HistOff /\ PlyOff /\ SessOff
    /\ \/ tfile = EmptyStats /\ torder = <<>>
       \/ tfile = LongUseStats /\ torder = << providers["wixmp"].name >>
    /\ tprev = tfile /\ tcall = NoCall /\ tcount = 0
    /\ rankings = <<>> /\ tpc = "run"

\* update_provider_stats(provider, success, response_time), run to its end
Record ==
    /\ tpc = "run"
    /\ tcount < MaxRecords
    /\ \E provider \in RecordNames, success \in BOOLEAN, response_time \in RecordTimes :
         /\ tfile' = UpdatedStats(tfile, provider, success, response_time)
         /\ torder' = IF provider \in DOMAIN tfile THEN torder ELSE Append(torder, provider)
         /\ tcall' = [ provider |-> provider, success |-> success,
                       response_time |-> response_time ]
    /\ tprev' = tfile
    /\ tcount' = tcount + 1
    /\ UNCHANGED <<rankings, tpc>>
    /\ UNCHANGED <<resVars, rankVars, decVars, extVars, medVars, histVars, plyVars, sessVars>>

\* get_provider_rankings() on the file as it stands
GetRankings ==
    /\ tpc = "run"
    /\ rankings' = get_provider_rankings(tfile, torder)
    /\ tpc' = "ranked"
    /\ UNCHANGED <<tfile, torder, tprev, tcall, tcount>>
    /\ UNCHANGED <<resVars, rankVars, decVars, extVars, medVars, histVars, plyVars, sessVars>>

TrkNext == Record \/ GetRankings

TrkSpec == TrkInit /\ [][TrkNext]_vars

(***************************************************************************)
(* Extractor specification: extract_sharepoint_links applied to every      *)
(* response text of a bounded set.                                         *)
(***************************************************************************)
\* most {...} objects written in a response text
MaxElements == 2

\* a download URL of the SharePoint domain; one of another domain
SharePointUrl == <<"https://", "x.", "sharepoint", ".com", "/download">>

OtherDomainUrl == <<"https://", "sharepoint", ".org", "/download">>

\* the objects of the model: with or without a link, flagged mp4 or not,
\* with or without a resolutionStr, written compactly or with blanks
Elements ==
    [ link : { <<>>, SharePointUrl, OtherDomainUrl }, mp4 : BOOLEAN,
      resolutionStr : { Absent, "720p" }, compact : BOOLEAN ]

RECURSIVE ElementListsUpTo(_)
ElementListsUpTo(n) ==
    IF n = 0 THEN { <<>> }
    ELSE LET shorter == ElementListsUpTo(n - 1) IN
         shorter \cup { Append(l, e) : l \in shorter, e \in Elements }

\* the response texts of the model
Bodies ==
    [ shape : { "object", "nolinks", "broken", "text" },
      elements : ElementListsUpTo(MaxElements),
      extras : { <<>>, << [ key |-> "src", url |-> SharePointUrl ] >> } ]

ExtInit ==
    /\ ResInit(EmptyStats) /\ RankOff /\ DecOff /\ TrkOff /\ MedOff
    /\ HistOff /\ PlyOff /\ SessOff
    /\ ebody \in Bodies
    /\ elinks = <<>> /\ epc = "in"

\* extract_sharepoint_links is called on the response text
Extract ==
    /\ epc = "in"
    /\ elinks' = extract_sharepoint_links(ebody)
    /\ epc' = "out"
    /\ UNCHANGED ebody
    /\ UNCHANGED <<resVars, rankVars, decVars, trkVars, medVars, histVars, plyVars, sessVars>>

ExtNext == Extract

ExtSpec == ExtInit /\ [][ExtNext]_vars

(***************************************************************************)
(* Media extractor specification: the Wixmp, YouTube and HiAnime branches  *)
(* of the collection loop applied to every response text of a bounded set. *)
(***************************************************************************)
\* most quality labels in the list of a repackager URL
MaxLabels == 2

\* most URLs written in a YouTube or HiAnime response text
MaxWritten == 2

RECURSIVE LabelListsUpTo(_)
LabelListsUpTo(n) ==
    IF n = 0 THEN { <<>> }
    ELSE LET shorter == LabelListsUpTo(n - 1) IN
         shorter \cup { Append(l, q) : l \in shorter, q \in { "720p", "480p", "" } }

\* the repackager URLs of the model: the expected base or another path, any
\* list of labels, the expected tail or another one
RepackagerUrls ==
    [ base : { <<"video.wixstatic.com", "/video/", "v1">>,
               <<"video.wixstatic.com", "/file/", "v1">> },
      qualities : LabelListsUpTo(MaxLabels),
      tail : { UrlsetTail, "/mp4/file.mp4" } ]

\* a second URL of a Wixmp response text
SecondRepackagerUrls ==
    { [ base |-> <<"video.wixstatic.com", "/video/", "v2">>,
        qualities |-> <<"720p">>, tail |-> UrlsetTail ],
      [ base |-> <<"video.wixstatic.com", "/video/", "v2">>,
        qualities |-> <<"1080p">>, tail |-> "/mp4/file.mp4" ] }

\* the Wixmp response texts of the model: no URL, one, or two
WixmpTexts ==
    { <<>> } \cup { <<u>> : u \in RepackagerUrls }
    \cup { <<u, v>> : u \in RepackagerUrls, v \in SecondRepackagerUrls }

\* the URLs written in the YouTube and HiAnime response texts of the model
MediaUrls ==
    { <<"https://", "h.example", "/v/", "index", ".m3u8">>,
      <<"https://", "h.example", "/v/", "master", ".m3u8">>,
      <<"https://", "h.example", "/", "master", "/", "index", ".m3u8">>,
      <<"/v/", "index", ".m3u8">>,
      <<"https://", "h.example", "/v/", "clip", ".mp4">>,
      <<"https://", "tools.fast4speed.rsvp", "/v">>,
      <<"https://allanime.day", "https://", "tools.fast4speed.rsvp", "/v">>,
      <<"https://", "tools.fast4speed", ".example", "/v">> }

Written == [ url : MediaUrls, member : BOOLEAN ]

RECURSIVE WrittenListsUpTo(_)
WrittenListsUpTo(n) ==
    IF n = 0 THEN { <<>> }
    ELSE LET shorter == WrittenListsUpTo(n - 1) IN
         shorter \cup { Append(l, w) : l \in shorter, w \in Written }

MedInit ==
    /\ ResInit(EmptyStats) /\ RankOff /\ DecOff /\ TrkOff /\ ExtOff
    /\ HistOff /\ PlyOff /\ SessOff
    /\ \/ mkey = "wixmp" /\ mtext \in WixmpTexts
       \/ mkey \in { "youtube", "hianime" } /\ mtext \in WrittenListsUpTo(MaxWritten)
    /\ mlinks = <<>> /\ mpc = "in"

\* the wixmp branch of the collection loop
ExtractWixmp ==
    /\ mpc = "in" /\ mkey = "wixmp"
    /\ mlinks' = Extracted(mkey, mtext)
    /\ mpc' = "out"
    /\ UNCHANGED <<mkey, mtext>>
    /\ UNCHANGED <<resVars, rankVars, decVars, trkVars, extVars, histVars, plyVars, sessVars>>

\* the youtube branch of the collection loop
ExtractYouTube ==
    /\ mpc = "in" /\ mkey = "youtube"
    /\ mlinks' = Extracted(mkey, mtext)
    /\ mpc' = "out"
    /\ UNCHANGED <<mkey, mtext>>
    /\ UNCHANGED <<resVars, rankVars, decVars, trkVars, extVars, histVars, plyVars, sessVars>>

\* the hianime branch of the collection loop
ExtractHiAnime ==
    /\ mpc = "in" /\ mkey = "hianime"
    /\ mlinks' = Extracted(mkey, mtext)
    /\ mpc' = "out"
    /\ UNCHANGED <<mkey, mtext>>
    /\ UNCHANGED <<resVars, rankVars, decVars, trkVars, extVars, histVars, plyVars, sessVars>>

MedNext == ExtractWixmp \/ ExtractYouTube \/ ExtractHiAnime

MedSpec == MedInit /\ [][MedNext]_vars

(***************************************************************************)
(* History specification: DataManager.add_history called again and again   *)
(* on history.json.  An entry is kept with the fields the calls set        *)
(* anime_id, anime_name, episode, mode and last_watched.  The fields a      *)
(* replacement carries over from the old entry (durations, rating, notes)  *)
(* keep their initial values under add_history; they are left out, as are  *)
(* quality, provider and total_episodes, which the search does not read.   *)
(* The clock is wall-clock time: a reading may equal the one before.       *)
(***************************************************************************)
\* data["history"][:100]
HistoryLimit == 100

\* most add_history calls of a run
MaxCalls == 2

\* a validation that looks at the identifier only
MissingIdOnly(anime_id, anime_name, episode) == anime_id = ""

\* not anime_id or not anime_name or not episode
MissingField(anime_id, anime_name, episode) ==
    anime_id = "" \/ anime_name = "" \/ episode = ""

\* a search that never finds the entry
existing_entry_none(history, anime_id, mode) == 0

\* the index of the first entry with the same anime_id and mode, 0 for None
existing_entry(history, anime_id, mode) ==
    LET same == { i \in 1..Len(history) :
                    history[i].anime_id = anime_id /\ history[i].mode = mode }
    IN  IF same = {} THEN 0 ELSE CHOOSE i \in same : \A j \in same : i <= j

history_entry(anime_id, anime_name, episode, mode, now) ==
    [ anime_id |-> anime_id, anime_name |-> anime_name, episode |-> episode,
      mode |-> mode, last_watched |-> now ]

\* history.sort(key=last_watched, reverse=True): the sort is stable, entries
\* with equal times keep their order
SortNewestFirst(history) ==
    LET n == Len(history)
        before(i) == { j \in 1..n :
                         \/ history[j].last_watched > history[i].last_watched
                         \/ history[j].last_watched = history[i].last_watched /\ j < i }
        placed == { <<Cardinality(before(i)) + 1, i>> : i \in 1..n }
    IN  [ p \in 1..n |-> history[(CHOOSE pi \in placed : pi[1] = p)[2]] ]

\* the list add_history hands to _save_json for valid arguments
UpdatedHistory(history, anime_id, anime_name, episode, mode, now) ==
    LET entry == history_entry(anime_id, anime_name, episode, mode, now)
        found == existing_entry(history, anime_id, mode)
        changed == IF found # 0 THEN [ history EXCEPT ![found] = entry ]
                   ELSE <<entry>> \o history
        sorted == SortNewestFirst(changed)
    IN  SubSeq(sorted, 1, IF Len(sorted) < HistoryLimit THEN Len(sorted) ELSE HistoryLimit)

\* the history after k calls for k different titles, one clock tick apart
FilledHistory(k) ==
    [ i \in 1..k |-> history_entry(ToString(k - i + 1), "Name", "1", "sub", k - i + 1) ]

\* the identifiers of the calls: none, the one of the oldest entry of a filled
\* history, one that no filled history holds
AnimeIds == { "", "1", ToString(HistoryLimit + 1) }

HistInit ==
    /\ ResInit(EmptyStats) /\ RankOff /\ DecOff /\ TrkOff /\ ExtOff /\ MedOff
    /\ PlyOff /\ SessOff
    /\ \E k \in { 0, HistoryLimit - 1, HistoryLimit } : hfile = FilledHistory(k) /\ hnow = k
    /\ hargs = NoArgs /\ hret = FALSE /\ hcount = 0 /\ hpc = "run"

\* the body of add_history: `success` is whether _save_json succeeds (if not,
\* the file is as before), `tick` how far the clock has advanced
add_history(anime_id, anime_name, episode, mode, success, tick) ==
    /\ hargs' = [ anime_id |-> anime_id, anime_name |-> anime_name,
                  episode |-> episode, mode |-> mode ]
    /\ IF MissingField(anime_id, anime_name, episode)
       THEN hret' = FALSE /\ UNCHANGED <<hfile, hnow>>
       ELSE /\ hnow' = hnow + tick
            /\ hret' = success
            /\ hfile' = IF success
                        THEN UpdatedHistory(hfile, anime_id, anime_name, episode,
                                            mode, hnow + tick)
                        ELSE hfile
    /\ hcount' = hcount + 1
    /\ UNCHANGED hpc

\* one add_history call
AddHistory ==
    /\ hpc = "run" /\ hcount < MaxCalls
    /\ \E anime_id \in AnimeIds, anime_name \in { "", "Name" }, episode \in { "", "2" },
          mode \in { "sub", "dub" }, success \in BOOLEAN, tick \in { 0, 1 } :
          add_history(anime_id, anime_name, episode, mode, success, tick)
    /\ UNCHANGED <<resVars, rankVars, decVars, trkVars, extVars, medVars, plyVars, sessVars>>

HistNext == AddHistory

HistSpec == HistInit /\ [][HistNext]_vars

(***************************************************************************)
(* Player specification: MediaPlayer.launch_player and close_player called *)
(* in any order on one MediaPlayer, while the processes it has launched    *)
(* run and exit.  A process is an index of procs.                          *)
(***************************************************************************)
\* most processes launched in a run
MaxLaunches == 5

\* how the attempt of close_player to stop a running process ends: the
\* process exits within the second after terminate(), it is still running
\* then and kill() ends it, or terminate() or kill() raises and the process
\* goes on running
CloseOutcomes == { "terminated", "killed", "raises" }

\* the try block of close_player on the running process p
Stopped(ps, p, outcome) ==
    IF outcome = "raises" THEN ps ELSE [ ps EXCEPT ![p] = "exited" ]

\* close_player: the processes after the call (current_process becomes None)
close_player(ps, current, outcome) ==
    IF current # None /\ ps[current] = "running" THEN Stopped(ps, current, outcome)
    ELSE ps

\* launch_player: the processes, current_process and the returned value after
\* the call.  `command` is whether get_player_command returns (it raises for
\* a player_name that is not a string), `started` whether Popen succeeds
launch_player(ps, current, command, outcome, started) ==
    IF ~command THEN [ procs |-> ps, current |-> current, returned |-> None ]
    ELSE LET closed == close_player(ps, current, outcome) IN
         IF started
         THEN [ procs |-> Append(closed, "running"), current |-> Len(closed) + 1,
                returned |-> Len(closed) + 1 ]
         ELSE [ procs |-> closed, current |-> None, returned |-> None ]

\* get_player_status
get_player_status(ps, current) ==
    IF current = None THEN "Not started"
    ELSE IF ps[current] = "running" THEN "Running" ELSE "Stopped"

PlyInit ==
    /\ ResInit(EmptyStats) /\ RankOff /\ DecOff /\ TrkOff /\ ExtOff /\ MedOff
    /\ HistOff /\ SessOff
    /\ procs = <<>> /\ current_process = None /\ plast = NoCallYet /\ ppc = "run"

\* one launch_player call
LaunchPlayer ==
    /\ ppc = "run" /\ Len(procs) < MaxLaunches
    /\ \E command \in BOOLEAN, outcome \in CloseOutcomes, started \in BOOLEAN :
          LET after == launch_player(procs, current_process, command, outcome, started)
          IN  /\ procs' = after.procs
              /\ current_process' = after.current
              /\ plast' = [ op |-> "launch", returned |-> after.returned ]
    /\ UNCHANGED ppc
    /\ UNCHANGED <<resVars, rankVars, decVars, trkVars, extVars, medVars, histVars, sessVars>>

\* one close_player call
ClosePlayer ==
    /\ ppc = "run"
    /\ \E outcome \in CloseOutcomes :
          procs' = close_player(procs, current_process, outcome)
    /\ current_process' = None
    /\ plast' = [ op |-> "close", returned |-> None ]
    /\ UNCHANGED ppc
    /\ UNCHANGED <<resVars, rankVars, decVars, trkVars, extVars, medVars, histVars, sessVars>>

\* a running player exits by itself: playback ends or the user closes it
ProcessExits ==
    /\ ppc = "run"
    /\ \E p \in 1..Len(procs) :
          /\ procs[p] = "running"
          /\ procs' = [ procs EXCEPT ![p] = "exited" ]
    /\ UNCHANGED <<current_process, plast, ppc>>
    /\ UNCHANGED <<resVars, rankVars, decVars, trkVars, extVars, medVars, histVars, sessVars>>

PlyNext == LaunchPlayer \/ ClosePlayer \/ ProcessExits

PlySpec == PlyInit /\ [][PlyNext]_vars

(***************************************************************************)
(* Session specification: the watching loop of                             *)
(* UserInterface._start_watching_session ("continue") and its twin in main *)
(* ("search"), with the player and the history it drives.  The links       *)
(* get_all_links returns and what the user types are inputs.               *)
(***************************************************************************)
\* most episodes of a title
MaxEpisodes == 3

\* most players launched in a session
MaxPlays == 2

\* the episodes lists get_episodes_list returns: not empty, sorted, an
\* episode possibly listed more than once
EpisodeLists ==
    LET numbers == UNION { [ 1..k -> 1..MaxEpisodes ] : k \in 1..MaxEpisodes }
        sorted == { l \in numbers : \A i \in 1..(Len(l) - 1) : l[i] <= l[i + 1] }
    IN  { [ i \in 1..Len(l) |-> ToString(l[i]) ] : l \in sorted }

\* what the user may type at "Enter episode number"
Typed == { "", "x" } \cup { ToString(n) : n \in 1..MaxEpisodes }

\* episodes.index(current_episode); 0 stands for the ValueError of an
\* episode that is not in the list
index(list, episode) ==
    LET at == { i \in 1..Len(list) : list[i] = episode }
    IN  IF at = {} THEN 0 ELSE CHOOSE i \in at : \A j \in at : i <= j

\* a selection that returns whatever was typed
show_episode_selection_unchecked(list, choice) == choice

\* show_episode_selection: the typed episode if the list holds it, else None
show_episode_selection(list, choice) ==
    IF \E i \in 1..Len(list) : list[i] = choice THEN choice ELSE NoEpisode

\* the title of the session
SessionAnime == [ id |-> "7", name |-> "Name", mode |-> "sub" ]

SessInit ==
    /\ ResInit(EmptyStats) /\ RankOff /\ DecOff /\ TrkOff /\ ExtOff /\ MedOff
    /\ hfile = <<>> /\ hnow = 0 /\ hargs = NoArgs /\ hret = FALSE /\ hcount = 0
    /\ hpc = "run"
    /\ procs = <<>> /\ current_process = None /\ plast = NoCallYet /\ ppc = "run"
    /\ episodes \in EpisodeLists
    /\ \E i \in 1..Len(episodes) : current_episode = episodes[i]
    /\ svariant \in { "continue", "search" }
    /\ saction = NoAction /\ spos = "top"

\* launch_player for the current episode and, if a process was started,
\* add_history; the loop sleeps between two launches, so the clock has advanced
LaunchAndRecord(ps, current, outcome, started, success) ==
    LET after == launch_player(ps, current, TRUE, outcome, started) IN
    /\ procs' = after.procs
    /\ current_process' = after.current
    /\ plast' = [ op |-> "launch", returned |-> after.returned ]
    /\ UNCHANGED ppc
    /\ IF started
       THEN add_history(SessionAnime.id, SessionAnime.name, current_episode,
                        SessionAnime.mode, success, 1)
       ELSE UNCHANGED histVars

\* one round of the loop from its top to the player controls: the links are
\* fetched, one is selected, the player is launched, the history updated
Play ==
    /\ spos = "top" /\ Len(procs) < MaxPlays
    /\ \/ \* no links: "continue" offers another episode, "search" leaves
          /\ \E retry \in BOOLEAN, choice \in Typed :
                LET new_episode == show_episode_selection(episodes, choice) IN
                IF svariant = "continue" /\ retry /\ new_episode # NoEpisode
                THEN current_episode' = new_episode /\ spos' = "top"
                ELSE UNCHANGED current_episode /\ spos' = "ended"
          /\ UNCHANGED <<plyVars, histVars>>
       \/ \* several links and none selected
          /\ spos' = "ended"
          /\ UNCHANGED <<current_episode, plyVars, histVars>>
       \/ \* a link is selected
          /\ \E outcome \in CloseOutcomes, started, success \in BOOLEAN :
                /\ LaunchAndRecord(procs, current_process, outcome, started, success)
                /\ spos' = IF started THEN "controls" ELSE "ended"
          /\ UNCHANGED current_episode
    /\ UNCHANGED <<episodes, svariant, saction>>
    /\ UNCHANGED <<resVars, rankVars, decVars, trkVars, extVars, medVars>>

\* show_player_controls returns an action and the loop carries it out
Control ==
    /\ spos = "controls"
    /\ \E action \in 0..8 :
          LET current_idx == index(episodes, current_episode) IN
          /\ saction' = action
          /\ \/ /\ action \in { 1, 6, 7 }
                /\ spos' = "top"
                /\ UNCHANGED <<current_episode, plyVars, histVars>>
             \/ /\ action = 2
                /\ IF current_idx = 0 THEN UNCHANGED current_episode /\ spos' = "ended"
                   ELSE IF current_idx < Len(episodes)
                   THEN current_episode' = episodes[current_idx + 1] /\ spos' = "top"
                   ELSE /\ UNCHANGED current_episode
                        /\ spos' = IF svariant = "continue" THEN "ended" ELSE "top"
                /\ UNCHANGED <<plyVars, histVars>>
             \/ /\ action = 3
                /\ IF current_idx = 0 THEN UNCHANGED current_episode /\ spos' = "ended"
                   ELSE IF current_idx > 1
                   THEN current_episode' = episodes[current_idx - 1] /\ spos' = "top"
                   ELSE UNCHANGED current_episode /\ spos' = "top"
                /\ UNCHANGED <<plyVars, histVars>>
             \/ /\ action = 4
                /\ \E choice \in Typed :
                      LET new_episode == show_episode_selection(episodes, choice) IN
                      current_episode' = IF new_episode # NoEpisode THEN new_episode
                                         ELSE current_episode
                /\ spos' = "top"
                /\ UNCHANGED <<plyVars, histVars>>
             \/ /\ action = 5
                /\ \/ \* no new selection
                      UNCHANGED <<plyVars, histVars>>
                   \/ \* close_player, then launch_player with the new link
                      /\ Len(procs) < MaxPlays
                      /\ \E closing, outcome \in CloseOutcomes, started, success \in BOOLEAN :
                            LaunchAndRecord(close_player(procs, current_process, closing),
                                            None, outcome, started, success)
                /\ spos' = "top"
                /\ UNCHANGED current_episode
             \/ /\ action \in { 0, 8 }
                /\ spos' = "ended"
                /\ UNCHANGED <<current_episode, plyVars, histVars>>
    /\ UNCHANGED <<episodes, svariant>>
    /\ UNCHANGED <<resVars, rankVars, decVars, trkVars, extVars, medVars>>

SessNext == Play \/ Control \/ ProcessExits

SessSpec == SessInit /\ [][SessNext]_vars

(***************************************************************************)
(* Properties of get_all_links, checked under Spec.                        *)
(***************************************************************************)
\* providers whose fetch was submitted and ended with status success / error
Succeeded == { k \in FutureSet : wres[k].status = "success" }

Failed == { k \in FutureSet : wres[k].status = "error" }

\* the links the body a provider answered with holds
LinksOf(k) == Tagged(k, Extracted(k, wres[k].response_text))

Occurrences(seq, x) == Cardinality({ i \in 1..Len(seq) : seq[i] = x })

RECURSIVE SuccessfulLinks(_)
\* the links of the successful providers, provider after provider in registry
\* order, from position i of the registry on
SuccessfulLinks(i) ==
    IF i > Len(Keys) THEN <<>>
    ELSE (IF Keys[i] \in Succeeded THEN LinksOf(Keys[i]) ELSE <<>>)
         \o SuccessfulLinks(i + 1)

\* C1: when some fetches of a call fail and others succeed, the call returns
\* normally, the returned list holds each link of each successful provider's
\* body as often as the body does and nothing else, and no returned link
\* carries the name of a failed provider.
C1_PartialFailureKeepsSuccessfulLinks ==
    (pc = "done" /\ Failed # {} /\ Succeeded # {}) =>
        /\ ret.kind = "return"
        /\ Len(ret.value) = Len(SuccessfulLinks(1))
        /\ \A k \in Succeeded : \A i \in 1..Len(LinksOf(k)) :
              Occurrences(ret.value, LinksOf(k)[i]) = Occurrences(LinksOf(k), LinksOf(k)[i])
        /\ \A k \in Failed : \A i \in 1..Len(ret.value) :
              ret.value[i][4] # providers[k].name

\* a call that ended with two failed and two successful fetches and returned
\* links
C1_Witness ==
    /\ pc = "done"
    /\ Cardinality(Failed) = 2 /\ Cardinality(Succeeded) = 2
    /\ ret.kind = "return" /\ ret.value # <<>>

\* the stored counters of a provider name (zero when it has no record)
StoredCount(file, name, field) ==
    IF name \in DOMAIN file THEN file[name][field] ELSE 0

\* C2: when a call has returned, every provider's stored success_count and
\* failure_count exceed their values at the start of the call by exactly the
\* number of successful and failed fetches of that provider in the call,
\* whatever the interleaving of the workers.
C2_CountersMatchOutcomes ==
    pc = "done" =>
        \A k \in KeySet :
            /\ StoredCount(statsFile, providers[k].name, "success_count")
                 = StoredCount(stats0, providers[k].name, "success_count")
                   + (IF k \in Succeeded THEN 1 ELSE 0)
            /\ StoredCount(statsFile, providers[k].name, "failure_count")
                 = StoredCount(stats0, providers[k].name, "failure_count")
                   + (IF k \in Failed THEN 1 ELSE 0)

\* C3: the returned sequence is a function of the bodies alone: it is the
\* sort of the successful providers' links taken in registry order, whatever
\* the order in which the futures completed and were consumed.
C3_ResultIndependentOfCompletionOrder ==
    (pc = "done" /\ metaResult = "ok") => ret.value = Rank(SuccessfulLinks(1))

\* a call whose futures were consumed last provider first, so that the
\* gathered list had to be reordered
C3_Witness ==
    /\ pc = "done"
    /\ Succeeded = KeySet
    /\ gathered[1][4] = "HiAnime"
    /\ gathered[Len(gathered)][4] = "Wixmp"
    /\ ret.value # gathered

C5_CallNeverBlocks ==
    (pc \in { "query", "submit", "collect" }) => ENABLED Next

\* whether some line of the blob carries a provider's tag followed by a token
SomeTagInBlob ==
    \E i \in 1..Len(source_urls), k \in KeySet :
        /\ CaseFold(source_urls[i].sourceName) = CaseFold(providers[k].tag)
        /\ StartsWith(source_urls[i].sourceUrl, Prefix)
        /\ Len(source_urls[i].sourceUrl) > 2
        /\ source_urls[i].sourceUrl[3] \in HexChars

\* C6: when no provider pattern matches the blob, then throughout the call no
\* provider fetch is issued, update_provider_stats is never invoked and the
\* stats file stays as it was, and the call returns the empty list.
C6_NoMatchNoFetchNoRecord ==
    (metaResult = "ok" /\ ~SomeTagInBlob) =>
        /\ requested = <<>> /\ futures = <<>>
        /\ \A k \in KeySet : recorded[k] = 0 /\ wpc[k] = "none"
        /\ statsFile = stats0 /\ tmpFile = NoFile
        /\ pc = "done" => ret = [ kind |-> "return", value |-> <<>> ]

\* a call that ended on a non-empty blob in which no pattern matches, one
\* line carrying a provider's tag without a token
C6_Witness ==
    /\ pc = "done" /\ metaResult = "ok" /\ ~SomeTagInBlob
    /\ Len(source_urls) = 2
    /\ source_urls[2].sourceName = "Default"

\* the providers of the registry whose display name is `name`
ProvidersNamed(name) == { k \in DOMAIN providers : providers[k].name = name }

\* C15: the registry holds exactly four providers with pairwise distinct
\* priorities, and every link get_all_links gathers and returns carries the
\* display name of exactly one provider of the registry.
C15_FourProvidersEachLinkNamesOne ==
    /\ Cardinality(DOMAIN providers) = 4
    /\ \A j, k \in DOMAIN providers :
          j # k => providers[j].priority # providers[k].priority
    /\ \A i \in 1..Len(all_links) : Cardinality(ProvidersNamed(all_links[i][4])) = 1
    /\ \A i \in 1..Len(ret.value) : Cardinality(ProvidersNamed(ret.value[i][4])) = 1

\* a call that returned links of each of the four providers
C15_Witness ==
    /\ pc = "done" /\ ret.kind = "return"
    /\ \A k \in DOMAIN providers :
          \E i \in 1..Len(ret.value) : ret.value[i][4] = providers[k].name

\* the lines of the blob that carry provider k's tag followed by a token
TagLines(k) ==
    { i \in 1..Len(source_urls) :
        /\ CaseFold(source_urls[i].sourceName) = CaseFold(providers[k].tag)
        /\ StartsWith(source_urls[i].sourceUrl, Prefix)
        /\ Len(source_urls[i].sourceUrl) > 2
        /\ source_urls[i].sourceUrl[3] \in HexChars }

\* the path decoded from the token of the first line carrying k's tag
PathOf(k) ==
    LET lines == TagLines(k)
        i == CHOOSE n \in lines : \A m \in lines : n <= m
    IN  decode(Prefix \o HexRun(Drop(source_urls[i].sourceUrl, 2)))

\* the fetch due for provider k: none unless its tag is in the blob and its
\* token decodes to a non-empty path, else one to the fixed host followed by
\* that path
Due(k) ==
    IF TagLines(k) = {} THEN <<>>
    ELSE LET path == PathOf(k) IN
         IF path = <<>> THEN <<>>
         ELSE << <<k, <<"https://", "allanime.day">> \o path>> >>

\* the fetches due for the first n providers of the registry, in its order
DueRequests(n) == Concat([ i \in 1..n |-> Due(Keys[i]) ])

\* how many providers of the registry the submit loop has been through
Considered ==
    IF pc = "submit" THEN idx - 1
    ELSE IF metaResult = "ok" THEN Len(Keys) ELSE 0

\* C20: the registry is in ascending priority order, and while the submit
\* loop runs and when the call has returned, the fetches issued are exactly
\* those due for the providers considered so far, in registry order: a
\* provider is fetched if and only if its tag pattern matches the blob and
\* the matched token decodes to a non-empty path, and the URL fetched is the
\* fixed host followed by that path.
C20_FetchIffTagAndPath ==
    /\ \A i \in 1..(Len(Keys) - 1) :
          providers[Keys[i]].priority < providers[Keys[i + 1]].priority
    /\ pc \in { "idle", "query", "submit", "done" } =>
          /\ requested = DueRequests(Considered)
          /\ futures = [ i \in 1..Len(requested) |-> requested[i][1] ]

\* a finished call whose blob carried the tags of Wixmp, SharePoint and
\* HiAnime, the SharePoint token of odd length: two fetches, Wixmp first
C20_Witness ==
    /\ pc = "done"
    /\ TagLines("wixmp") # {} /\ TagLines("sharepoint") # {} /\ TagLines("hianime") # {}
    /\ PathOf("sharepoint") = <<>>
    /\ requested = << <<"wixmp", <<"https://", "allanime.day", "/", "a">> >>,
                      <<"hianime", <<"https://", "allanime.day", "/", "a">> >> >>

\* C21: when get_all_links has returned, every fetch task it submitted has
\* finished with a success or an error result, none is running or waiting,
\* every future was consumed by the collection loop, and the gathered list
\* holds the links of every successful task.
C21_AllTasksJoinedAtReturn ==
    pc = "done" =>
        /\ \A k \in KeySet : wpc[k] \in { "none", "done" }
        /\ \A k \in FutureSet :
              wpc[k] = "done" /\ wres[k].status \in { "success", "error" }
        /\ collected = FutureSet
        /\ Len(gathered) = Len(SuccessfulLinks(1))
        /\ \A k \in Succeeded : \A i \in 1..Len(LinksOf(k)) :
              Occurrences(gathered, LinksOf(k)[i]) = Occurrences(LinksOf(k), LinksOf(k)[i])

\* a call that returned after four tasks, three successful and one failed
C21_Witness ==
    /\ pc = "done" /\ Len(futures) = 4
    /\ Cardinality(Succeeded) = 3 /\ Cardinality(Failed) = 1
    /\ gathered # <<>>

\* C22: within a call each provider is submitted, fetched and recorded at
\* most once, and a worker whose fetch failed only saves the statistics and
\* ends: it never fetches again.
C22_FetchedAtMostOnce ==
    \A k \in KeySet :
        /\ Occurrences(futures, k) <= 1
        /\ Cardinality({ i \in 1..Len(requested) : requested[i][1] = k }) <= 1
        /\ recorded[k] <= 1
        /\ wres[k].status = "error" => wpc[k] \in { "write", "replace", "done" }

\* a call that returned with a failed provider, fetched once
C22_Witness ==
    /\ pc = "done"
    /\ \E k \in Failed : recorded[k] = 1 /\ Occurrences(futures, k) = 1
    /\ Succeeded # {}

\* the provider fetches in flight
InFlight == { k \in KeySet : wpc[k] = "fetch" }

IsWixmp1080(link) == link[4] = "Wixmp" /\ link[1] = "mp4" /\ link[2] = "1080p"

IsSharePointMp4(link) == link[4] = "SharePoint" /\ link[1] = "mp4"

IsHiAnimeM3u8(link) == link[4] = "HiAnime" /\ link[1] = "m3u8"

\* C7: in the sorted list every Wixmp mp4 1080p link stands before every
\* SharePoint mp4 link, and every SharePoint mp4 link before every HiAnime
\* m3u8 link, whatever the order of the input.
C7_ProviderOrder ==
    rpc # "in" =>
        \A i, j \in 1..Len(rout) :
            /\ (IsWixmp1080(rout[i]) /\ IsSharePointMp4(rout[j])) => i < j
            /\ (IsSharePointMp4(rout[i]) /\ IsHiAnimeM3u8(rout[j])) => i < j

\* an input holding the three kinds of link in the opposite order
C7_Witness ==
    /\ rpc = "once" /\ Len(rin) = 3
    /\ IsHiAnimeM3u8(rin[1]) /\ IsSharePointMp4(rin[2]) /\ IsWixmp1080(rin[3])
    /\ IsWixmp1080(rout[1])

\* the links of l of one provider and format whose label is outside `known`
Unranked(l, name, fmt, known) ==
    SelectSeq(l, LAMBDA x : x[4] = name /\ x[1] = fmt /\ x[2] \notin known)

\* the labels of a provider's quality_levels
QualityLevels(k) ==
    { providers[k].quality_levels[i] : i \in 1..Len(providers[k].quality_levels) }

Formats == { "mp4", "m3u8" }

TableRank(quality) ==
    LET order == <<"1080p", "720p", "480p", "360p">>
        hits == { i \in 1..Len(order) : order[i] = quality }
    IN  IF hits = {} THEN Len(order) + 1 ELSE CHOOSE i \in hits : TRUE

C9_RankIdempotent == rpc = "twice" => rout2 = rout

\* a list sorted twice that holds two links with equal keys and is not
\* sorted as given
C9_Witness ==
    /\ rpc = "twice" /\ rout # rin
    /\ \E i, j \in 1..Len(rin) :
          i # j /\ rin[i] # rin[j] /\ sort_key(rin[i]) = sort_key(rin[j])

(***************************************************************************)
(* Properties of the decoder, checked under DecSpec.                       *)
(***************************************************************************)
\* C10: decode returns the empty string for the empty token and for every
\* token whose length, once a leading "--" is removed, is odd.
C10_EmptyOrOddGivesEmpty ==
    (dpc = "out" /\ (tok = <<>> \/ Len(StripPrefix(tok)) % 2 = 1)) => dout = <<>>

\* a prefixed token of odd remaining length that starts with a known pair
C10_Witness ==
    /\ dpc = "out"
    /\ tok = <<"-", "-", "7", "9", "7">>
    /\ dout = <<>>

\* C11 (as claimed): decode("7968") returns "AX".
C11_Decode7968GivesAX ==
    (dpc = "out" /\ tok = <<"7", "9", "6", "8">>) => dout = <<"A", "X">>

\* C11 (amended): decode("7968") returns "AP", the table mapping the pair 79
\* to A and the pair 68 to P; X is the image of the pair 60, so that
\* decode("7960") returns "AX".
C11_Decode7968GivesAP ==
    /\ (dpc = "out" /\ tok = <<"7", "9", "6", "8">>) => dout = <<"A", "P">>
    /\ (dpc = "out" /\ tok = <<"7", "9", "6", "0">>) => dout = <<"A", "X">>

\* decode returned on the token 7968
C11_Witness ==
    dpc = "out" /\ tok = <<"7", "9", "6", "8">> /\ Len(dout) = 2

\* whether s ends with the segment "/clock"
EndsWithClock(s) ==
    Len(s) >= Len(ClockOld) /\ SubSeq(s, Len(s) - Len(ClockOld) + 1, Len(s)) = ClockOld

\* s with ".json" put behind every place where "/clock" ends
JsonAfterEveryClock(s) ==
    Concat([ i \in 1..Len(s) |->
               <<s[i]>> \o (IF i >= Len(ClockOld) /\ SubSeq(s, i - Len(ClockOld) + 1, i) = ClockOld
                            THEN <<".", "j", "s", "o", "n">> ELSE <<>>) ])

\* C12 (as claimed): an assembled string that does not end with the segment
\* "/clock" is returned unchanged.
C12_OnlyTrailingClockRewritten ==
    (dpc = "out" /\ ~EndsWithClock(decoded_chars)) => dout = decoded_chars

\* C12 (amended): decode returns the assembled string with every occurrence
\* of "/clock" replaced by "/clock.json", wherever it stands: at the end, in
\* the middle, as the start of a longer segment, or in front of ".json".
C12_EveryClockRewritten ==
    dpc = "out" => dout = JsonAfterEveryClock(decoded_chars)

\* a token whose assembled string holds "/clock" twice, neither at its end,
\* the second already followed by ".json"
C12_Witness ==
    /\ dpc = "out"
    /\ decoded_chars = ClockOld \o ClockOld \o <<".", "j", "s", "o", "n">>
    /\ dout = ClockNew \o ClockNew \o <<".", "j", "s", "o", "n">>

\* the images of the known groups among the successive 2-character groups
\* s[1..2], s[3..4], ... of a string of even length
GroupImages(s) ==
    Concat([ i \in 1..(Len(s) \div 2) |->
               IF s[2 * i - 1] \o s[2 * i] \in DOMAIN translation_table
               THEN <<translation_table[s[2 * i - 1] \o s[2 * i]]>> ELSE <<>> ])

Letters ==
    { "A", "B", "C", "D", "E", "F", "G", "H", "I", "J", "K", "L", "M", "N", "O", "P", "Q",
      "R", "S", "T", "U", "V", "W", "X", "Y", "Z",
      "a", "b", "c", "d", "e", "f", "g", "h", "i", "j", "k", "l", "m", "n", "o", "p", "q",
      "r", "s", "t", "u", "v", "w", "x", "y", "z" }

Digits == { "0", "1", "2", "3", "4", "5", "6", "7", "8", "9" }

\* the punctuation characters the claim lists
ListedPunctuation ==
    { ":", "/", "?", "#", "[", "]", "@", "!", "$", "&", "(", ")", "*", "+", ",", ";", "=",
      "-", ".", "_", "~" }

\* the characters the table maps to
TableImages == { translation_table[p] : p \in DOMAIN translation_table }

\* C14 (as claimed): the table has exactly 64 entries and every character of
\* a decoded string is a letter, a digit or one of the listed punctuation
\* characters.
C14_SixtyFourEntriesListedAlphabet ==
    /\ Cardinality(DOMAIN translation_table) = 64
    /\ dpc = "out" =>
          \A i \in 1..Len(dout) : dout[i] \in Letters \cup Digits \cup ListedPunctuation

\* C14 (amended): the table has exactly 84 entries, one for each of the 52
\* letters, the 10 digits, the 21 listed punctuation characters and the
\* percent sign, and every character of a decoded string is one of these 84
\* characters.
C14_EightyFourEntriesWithPercent ==
    /\ Cardinality(DOMAIN translation_table) = 84
    /\ TableImages = Letters \cup Digits \cup ListedPunctuation \cup { "%" }
    /\ Cardinality(TableImages) = 84
    /\ dpc = "out" => \A i \in 1..Len(dout) : dout[i] \in TableImages

\* a decoded string that holds the percent sign next to a letter, from a
\* token that also holds an unknown pair
C14_Witness ==
    /\ dpc = "out"
    /\ tok = <<"1", "d", "f", "f", "7", "9">>
    /\ dout = <<"%", "A">>

(***************************************************************************)
(* Properties of the tracker, checked under TrkSpec.                       *)
(***************************************************************************)
\* equality of a fraction in lowest terms and the fraction y[1] / y[2]
FracEq(x, y) == x = Frac(y[1], y[2])

\* the average of the latest call's provider before and after the call
OldAvg ==
    IF tcall.provider \in DOMAIN tprev THEN tprev[tcall.provider].avg_response_time
    ELSE <<0, 1>>

NewAvg == tfile[tcall.provider].avg_response_time

\* the provider's attempts and successes once the latest call is counted
Attempts == tfile[tcall.provider].success_count + tfile[tcall.provider].failure_count

Successes == tfile[tcall.provider].success_count

\* ((oldAvg * (n - 1)) + latency) / n with n the attempts so far
Incremental ==
    << OldAvg[1] * (Attempts - 1) + tcall.response_time * OldAvg[2], OldAvg[2] * Attempts >>

\* C16 (as claimed): after a call the average is the latency when the
\* provider's success count is at most 1, else the incremental mean.
C16_ResetWhileAtMostOneSuccess ==
    tcall # NoCall =>
        IF Successes <= 1 THEN FracEq(NewAvg, <<tcall.response_time, 1>>)
        ELSE FracEq(NewAvg, Incremental)

\* C16 (amended): after a call the average is the latency when the call is
\* the provider's first attempt, success or failure, and else the incremental
\* mean over all its attempts; a first success after earlier failures is
\* averaged with them and does not reset the average.
C16_ResetOnFirstAttemptOnly ==
    tcall # NoCall =>
        IF Attempts <= 1 THEN FracEq(NewAvg, <<tcall.response_time, 1>>)
        ELSE FracEq(NewAvg, Incremental)

\* a first success of three time units recorded after one failure of one
\* time unit: the average is two, not three
C16_Witness ==
    /\ tcall # NoCall /\ tcall.success /\ tcall.response_time = 3
    /\ Successes = 1 /\ Attempts = 2
    /\ OldAvg = <<1, 1>>
    /\ NewAvg = <<2, 1>>

\* whether entry a has the greater exact success rate s / (s + f), or the same
ExactRateGreater(a, b) == a[2] * (b[2] + b[3]) > b[2] * (a[2] + a[3])

ExactRateEqual(a, b) == a[2] * (b[2] + b[3]) = b[2] * (a[2] + a[3])

\* the entries describe the providers of the file, one entry each
EntriesOfFile ==
    /\ Len(rankings) = Cardinality(DOMAIN tfile)
    /\ \A n \in DOMAIN tfile :
          \E i \in 1..Len(rankings) :
              /\ rankings[i][1] = n
              /\ rankings[i][2] = tfile[n].success_count
              /\ rankings[i][3] = tfile[n].failure_count
              /\ rankings[i][4] = tfile[n].avg_response_time

\* C17 (as claimed): the entries are sorted by the success rate
\* 100 * s / (s + f) descending and, at equal rate, by average latency
\* ascending, and each entry reports that rate (in hundredths of a percent).
C17_SortedByExactRate ==
    tpc = "ranked" =>
        /\ EntriesOfFile
        /\ \A i \in 1..Len(rankings) :
              rankings[i][5] * (rankings[i][2] + rankings[i][3]) = 10000 * rankings[i][2]
        /\ \A i, j \in 1..Len(rankings) :
              i < j =>
                 \/ ExactRateGreater(rankings[i], rankings[j])
                 \/ /\ ExactRateEqual(rankings[i], rankings[j])
                    /\ ~FracLess(rankings[j][4], rankings[i][4])

\* C17 (amended): each entry reports 100 * s / (s + f) rounded to two
\* decimals (75.0 after 3 successes and 1 failure), and the entries are
\* sorted by that rounded rate descending and, at equal rounded rate, by
\* average latency ascending.
C17_SortedByRoundedRate ==
    tpc = "ranked" =>
        /\ EntriesOfFile
        /\ \A i \in 1..Len(rankings) :
              LET t == rankings[i][2] + rankings[i][3]
                  d == rankings[i][5] * t - 10000 * rankings[i][2]
              IN  /\ 2 * d <= t /\ -2 * d <= t
                  /\ (rankings[i][2] = 3 /\ rankings[i][3] = 1) => rankings[i][5] = 7500
        /\ \A i, j \in 1..Len(rankings) :
              i < j =>
                 \/ rankings[i][5] > rankings[j][5]
                 \/ /\ rankings[i][5] = rankings[j][5]
                    /\ ~FracLess(rankings[j][4], rankings[i][4])

\* rankings in which SharePoint, with 1 success in 3 attempts, stands behind
\* Wixmp, with 3333 successes in 10000: the rounded rates are both 33.33 and
\* Wixmp has the lower average latency
C17_Witness ==
    /\ tpc = "ranked" /\ Len(rankings) = 2
    /\ rankings[1][1] = "Wixmp" /\ rankings[1][2] = 3333 /\ rankings[1][5] = 3333
    /\ rankings[2][1] = "SharePoint" /\ rankings[2][2] = 1 /\ rankings[2][3] = 2
    /\ rankings[2][5] = 3333
    /\ FracLess(rankings[1][4], rankings[2][4])

(***************************************************************************)
(* Properties of extract_sharepoint_links, checked under ExtSpec.          *)
(***************************************************************************)
RECURSIVE TriplePerMp4Element(_)
\* one (mp4, label, link) triple for each element that has a link and whose
\* mp4 flag is set, in order, the label being resolutionStr or the fallback
\* label
TriplePerMp4Element(elements) ==
    IF elements = <<>> THEN <<>>
    ELSE (IF Head(elements).mp4 /\ Head(elements).link # <<>>
          THEN << <<"mp4",
                    IF Head(elements).resolutionStr = Absent THEN "SharePoint"
                    ELSE Head(elements).resolutionStr,
                    Head(elements).link>> >>
          ELSE <<>>) \o TriplePerMp4Element(Tail(elements))

\* C18: for a body that parses as a JSON object with a non-empty links
\* array, the extractor returns, in array order, exactly one triple per
\* element whose mp4 flag is truthy and nothing else; the body with the one
\* element (link, mp4 true, 720p) yields the one triple (mp4, 720p, link).
C18_OneTriplePerMp4Element ==
    (epc = "out" /\ ebody.shape = "object" /\ ebody.elements # <<>>) =>
        elinks = TriplePerMp4Element(ebody.elements)

\* C19: when the body fails to parse as JSON, whether or not it starts with
\* "{", or its links array is empty, the extractor returns what the scan of
\* the raw text finds, each URL as an mp4 link with the fallback label.
C19_FallbackScanOnParseFailure ==
    (epc = "out" /\ (\/ ebody.shape \in { "broken", "text" }
                     \/ ebody.shape = "object" /\ ebody.elements = <<>>)) =>
        elinks = RegexLinks(ebody)

(***************************************************************************)
(* Properties of the Wixmp, YouTube and HiAnime extractors, checked under  *)
(* MedSpec, and of the list get_all_links returns, checked under Spec.     *)
(***************************************************************************)
\* whether part b follows part a somewhere in the URL
Adjacent(url, a, b) == \E i \in 1..(Len(url) - 1) : url[i] = a /\ url[i + 1] = b

\* C24 (as stated): the HiAnime extractor labels a link "HLS Master" exactly
\* when its URL contains the text "master" anywhere, a directory name
\* included, and "HLS Stream" otherwise.
C24_MasterWhenWordMasterAnywhere ==
    (mpc = "out" /\ mkey = "hianime") =>
        \A i \in 1..Len(mlinks) :
            mlinks[i][2] = (IF \E j \in 1..Len(mlinks[i][3]) : mlinks[i][3][j] = "master"
                            THEN "HLS Master" ELSE "HLS Stream")

\* C24 (amended): the HiAnime extractor labels a link "HLS Master" exactly
\* when its URL contains the text "master.m3u8", and "HLS Stream" otherwise;
\* a URL that has "master" only as a directory name is an "HLS Stream".
C24_MasterWhenMasterM3u8 ==
    (mpc = "out" /\ mkey = "hianime") =>
        \A i \in 1..Len(mlinks) :
            /\ mlinks[i][1] = "m3u8"
            /\ mlinks[i][2] = (IF Adjacent(mlinks[i][3], "master", ".m3u8")
                               THEN "HLS Master" ELSE "HLS Stream")

\* a text with a master.m3u8 URL and a URL under a directory named master:
\* the first is labelled HLS Master, the second HLS Stream
C24_Witness ==
    /\ mpc = "out" /\ mkey = "hianime"
    /\ mlinks = << <<"m3u8", "HLS Master",
                     <<"https://", "h.example", "/v/", "master", ".m3u8">> >>,
                   <<"m3u8", "HLS Stream",
                     <<"https://", "h.example", "/", "master", "/", "index", ".m3u8">> >> >>

\* the mp4 links of one repackager URL: one per label, in list order
Mp4PerLabel(u) ==
    IF /\ u.base[2] = "/video/" /\ u.tail = UrlsetTail /\ u.qualities # <<>>
       /\ \A i \in 1..Len(u.qualities) : u.qualities[i] # ""
    THEN [ i \in 1..Len(u.qualities) |->
             <<"mp4", u.qualities[i],
               <<"https://", u.base[1], u.base[2], u.base[3], "/", u.qualities[i],
                 "/mp4/file.mp4">> >> ]
    ELSE <<>>

\* C25: for a repackager URL carrying the base path B and the labels
\* q1,...,qn the Wixmp branch emits exactly the n links
\* (mp4, qi, https://B/qi/mp4/file.mp4), in the order of the labels; for a
\* URL in which the pattern is absent it emits nothing.
C25_OneMp4LinkPerLabel ==
    (mpc = "out" /\ mkey = "wixmp") =>
        mlinks = Concat([ i \in 1..Len(mtext) |-> Mp4PerLabel(mtext[i]) ])

\* a URL with two labels has yielded its two links, in the order of the labels
C25_Witness ==
    /\ mpc = "out" /\ mkey = "wixmp"
    /\ Len(mtext) = 1 /\ mtext[1].qualities = <<"480p", "720p">>
    /\ Len(mlinks) = 2 /\ mlinks[1][2] = "480p" /\ mlinks[2][2] = "720p"

\* C26: the list get_all_links returns never holds the same
\* (format, quality, url, provider) tuple twice, even when a URL of the
\* response is matched by more than one pattern or written more than once.
C26_NoTupleTwice ==
    (pc = "done" /\ ret.kind = "return") =>
        \A i, j \in 1..Len(ret.value) : ret.value[i] = ret.value[j] => i = j

(***************************************************************************)
(* Properties of add_history, checked under HistSpec.                      *)
(***************************************************************************)
\* C27: from an empty history, after any sequence of add_history calls the
\* stored history holds at most 100 entries and at most one entry for each
\* (anime_id, mode) pair: a call for a pair that has an entry replaces it.
C27_AtMostHundredOnePerPair ==
    (hpc = "run") =>
        /\ Len(hfile) <= 100
        /\ Cardinality({ <<hfile[i].anime_id, hfile[i].mode>> : i \in 1..Len(hfile) })
               = Len(hfile)

\* a full history has taken a call for a new pair and one for the pair of an
\* entry it holds: it has 100 entries, the replaced entry holds the new episode
C27_Witness ==
    /\ hpc = "run" /\ hret /\ Len(hfile) = 100
    /\ hfile[1].anime_id = "101"
    /\ \E i \in 1..Len(hfile) : hfile[i].anime_id = "1" /\ hfile[i].episode = "2"

\* C28: an add_history call with an empty anime_id, anime_name or episode
\* returns False and leaves the stored history unchanged.
C28_MissingFieldRejected ==
    [][(hcount' # hcount /\ (\/ hargs'.anime_id = "" \/ hargs'.anime_name = ""
                             \/ hargs'.episode = ""))
          => (hret' = FALSE /\ hfile' = hfile)]_vars

\* a call without an episode has been refused on a history that holds entries
C28_Witness ==
    /\ hpc = "run" /\ hcount > 0 /\ hfile # <<>>
    /\ hargs.anime_id # "" /\ hargs.anime_name # "" /\ hargs.episode = ""
    /\ hret = FALSE

(***************************************************************************)
(* Properties of MediaPlayer, checked under PlySpec.                       *)
(***************************************************************************)
\* the processes launched by the player that are alive
Alive == { p \in 1..Len(procs) : procs[p] = "running" }

\* C30: after any sequence of launch_player and close_player calls on one
\* MediaPlayer at most one process it launched is alive, launch_player
\* having ended a running previous process before it starts the new one;
\* after close_player no process is tracked: the status is "Not started".
C30_AtMostOneAliveNoneTrackedAfterClose ==
    (ppc = "run") =>
        /\ Cardinality(Alive) <= 1
        /\ plast.op = "close" =>
               get_player_status(procs, current_process) = "Not started"

(***************************************************************************)
(* Properties of the watching session, checked under SessSpec.             *)
(***************************************************************************)
\* C29: throughout a watching session started at an episode of the
\* episodes list, the current episode is a member of the list after any
\* sequence of next, previous and change-episode actions; next at the last
\* and previous at the first episode do not move it out of the list.
C29_CurrentEpisodeInList ==
    (spos # "off") => \E i \in 1..Len(episodes) : episodes[i] = current_episode

\* previous was chosen while the first of three episodes was playing, in the
\* second round of the session: the session is still at the first episode
C29_Witness ==
    /\ spos = "top" /\ Len(episodes) = 3 /\ hcount = 2
    /\ saction = 3 /\ hargs.episode = episodes[1]
    /\ current_episode = episodes[1]

====
